---- MODULE Spec2Model ----
(***************************************************************************)
(* A model of github.com/a-poor/requests: the Request / Response data      *)
(* model, the header and query stores, Copy, the URL path template, the    *)
(* URL encoder and Send.                                                   *)
(*                                                                         *)
(* Go strings and []byte are sequences of one-character strings.  Go maps  *)
(* and slices are reference values: a Request holds the address of its     *)
(* Headers map, Query map and Body array in a heap (0 is nil), so that     *)
(* aliasing between two Requests is visible.                               *)
(***************************************************************************)
EXTENDS Integers, Sequences, FiniteSets, TLC

VARIABLES reqs,      \* the Request values alive, by index
          mapHeap,   \* the map[string]string objects allocated, by address
          byteHeap,  \* the byte arrays allocated, by address
          last,      \* the call just made: operation, arguments, results
          net,       \* what the transport was asked to do
          ghost,     \* how the inputs of the run were built
          steps,     \* the calls made so far, where a run is cut to a length
          resps      \* the Response values alive, by index

vars == <<reqs, mapHeap, byteHeap, last, net, ghost, steps, resps>>

\* The most Requests a run holds.
MaxReqs == 2

\* The most calls in a run that is cut to a length.
MaxOps == 3

\* The longest string handed to URLEncode.
MaxStrLen == 2

\* The most calls of Send in a run.
MaxSends == 2

\* The HTTPMethod values tried run from -MethodRange to MethodRange.
MethodRange == 50

(***************************************************************************)
(* Characters and strings                                                  *)
(***************************************************************************)

\* The printable ASCII characters, in code order: Ascii[i] has code 31 + i
\* (the double quote, the backslash and the backtick are spelled out).
Ascii ==
    << " ", "!", "dquote", "#", "$", "%", "&", "'", "(", ")", "*", "+",
       ",", "-", ".", "/", "0", "1", "2", "3", "4", "5", "6", "7",
       "8", "9", ":", ";", "<", "=", ">", "?", "@", "A", "B", "C",
       "D", "E", "F", "G", "H", "I", "J", "K", "L", "M", "N", "O",
       "P", "Q", "R", "S", "T", "U", "V", "W", "X", "Y", "Z", "[",
       "backslash", "]", "^", "_", "backtick", "a", "b", "c", "d", "e", "f", "g",
       "h", "i", "j", "k", "l", "m", "n", "o", "p", "q", "r", "s",
       "t", "u", "v", "w", "x", "y", "z", "{", "|", "}", "~" >>

Chars == {Ascii[i] : i \in 1..Len(Ascii)}

\* The code of each character.
OrdTable == [c \in Chars |-> 31 + (CHOOSE i \in 1..Len(Ascii) : Ascii[i] = c)]

Ord(c) == OrdTable[c]

Chr(n) == Ascii[n - 31]

IsUpper(c) == Ord(c) \in Ord("A")..Ord("Z")

IsLower(c) == Ord(c) \in Ord("a")..Ord("z")

IsDigit(c) == Ord(c) \in Ord("0")..Ord("9")

\* strings.ToLower, on ASCII: every upper-case letter moves to its lower-case one.
ToLowerChar(c) == IF IsUpper(c) THEN Chr(Ord(c) + (Ord("a") - Ord("A"))) ELSE c

LowerTable == [c \in Chars |-> ToLowerChar(c)]

ToLower(s) == [i \in 1..Len(s) |-> LowerTable[s[i]]]

RECURSIVE Concat(_)
\* The concatenation of a sequence of strings.
Concat(ss) == IF ss = <<>> THEN <<>> ELSE Head(ss) \o Concat(Tail(ss))

(***************************************************************************)
(* The data model                                                          *)
(***************************************************************************)

GET == 0

POST == 1

\* A nil map or slice.
Nil == 0

EmptyMap == <<>>

\* m[k] = v on a Go map.
MapSet(m, k, v) == [x \in (DOMAIN m) \cup {k} |-> IF x = k THEN v ELSE m[x]]

\* A loop that stopped at the first key it deleted.
MapDelFirst(m, ks) ==
    IF ks = {} THEN m ELSE [x \in (DOMAIN m) \ {CHOOSE k \in ks : TRUE} |-> m[x]]

\* delete(m, k) for every k of ks.
MapDelAll(m, ks) == [x \in (DOMAIN m) \ ks |-> m[x]]

\* The Request struct.
Request(url, method, headers, query, body, timeout) ==
    [URL |-> url, Method |-> method, Headers |-> headers, Query |-> query,
     Body |-> body, Timeout |-> timeout]

ReqIds == 1..Len(reqs)

\* What a Request's fields hold, maps and bytes read through their addresses.
HeadersOf(r) == IF reqs[r].Headers = Nil THEN EmptyMap ELSE mapHeap[reqs[r].Headers]

QueryOf(r) == IF reqs[r].Query = Nil THEN EmptyMap ELSE mapHeap[reqs[r].Query]

BodyOf(r) == IF reqs[r].Body = Nil THEN <<>> ELSE byteHeap[reqs[r].Body]

NoCall == [op |-> "none", rcv |-> 0, name |-> <<>>, value |-> <<>>]

(***************************************************************************)
(* The inputs the operations are tried on                                  *)
(***************************************************************************)

ContentTypeKey == <<"c","o","n","t","e","n","t","-","t","y","p","e">>

MixedContentType == <<"C","o","n","t","e","n","t","-","T","y","p","e">>

\* Header names: the key NewPostRequest writes, a mixed-case spelling of it
\* (as the documentation assigns it), and an unrelated name.
HeaderNames == {ContentTypeKey,
                MixedContentType,
                <<"a","c","c","e","p","t">>}

\* Query names: two that differ only in case.
QueryNames == {<<"F","o","o">>, <<"f","o","o">>}

Values == {<<"x">>, <<"y">>}

URLs == {<<>>, <<"/","u">>}

Bodies == {<<>>, <<"h","i">>}

\* The maps a caller can assign to Headers directly, with keys of any case.
DirectMaps == UNION {[ks -> Values] : ks \in SUBSET HeaderNames}

(***************************************************************************)
(* Header and query helpers                                                *)
(***************************************************************************)

\* "Create the map if it doesn't exist": the address Headers holds after the
\* nil check, and the heap with the new map allocated.
HeadersAddr(r) == IF reqs[r].Headers = Nil THEN Len(mapHeap) + 1 ELSE reqs[r].Headers

HeapWithHeaders(r) == IF reqs[r].Headers = Nil THEN Append(mapHeap, EmptyMap) ELSE mapHeap

QueryAddr(r) == IF reqs[r].Query = Nil THEN Len(mapHeap) + 1 ELSE reqs[r].Query

HeapWithQuery(r) == IF reqs[r].Query = Nil THEN Append(mapHeap, EmptyMap) ELSE mapHeap

\* A lookup that lower-cased the name and compared it with the keys as stored.
MatchingKeysAsStored(m, name) == {k \in DOMAIN m : k = ToLower(name)}

\* The stored keys a header name matches: strings.ToLower(k) == key.
MatchingKeys(m, name) == {k \in DOMAIN m : ToLower(k) = ToLower(name)}

\* The key SetHeader stores under.
SetHeaderKey(name) == ToLower(name)

GetHeader(r, name) ==
    /\ r \in ReqIds
    /\ reqs' = [reqs EXCEPT ![r].Headers = HeadersAddr(r)]
    /\ mapHeap' = HeapWithHeaders(r)
    /\ LET m == HeadersOf(r)
       IN  \/ \E k \in MatchingKeys(m, name) :
                \* the range loop returns at the first matching key it meets,
                \* and a map is ranged over in no fixed order
                last' = [op |-> "GetHeader", rcv |-> r, name |-> name, value |-> <<>>,
                         res |-> m[k], ok |-> TRUE]
           \/ /\ MatchingKeys(m, name) = {}
              /\ last' = [op |-> "GetHeader", rcv |-> r, name |-> name, value |-> <<>>,
                          res |-> <<>>, ok |-> FALSE]
    /\ UNCHANGED <<byteHeap, net, ghost>>

SetHeader(r, name, value) ==
    /\ r \in ReqIds
    /\ reqs' = [reqs EXCEPT ![r].Headers = HeadersAddr(r)]
    /\ mapHeap' = [HeapWithHeaders(r) EXCEPT
                     ![HeadersAddr(r)] = MapSet(HeadersOf(r), SetHeaderKey(name), value)]
    /\ last' = [op |-> "SetHeader", rcv |-> r, name |-> name, value |-> value]
    /\ UNCHANGED <<byteHeap, net, ghost>>

DelHeader(r, name) ==
    /\ r \in ReqIds
    /\ reqs' = [reqs EXCEPT ![r].Headers = HeadersAddr(r)]
    /\ mapHeap' = [HeapWithHeaders(r) EXCEPT
                     ![HeadersAddr(r)] = MapDelAll(HeadersOf(r), MatchingKeys(HeadersOf(r), name))]
    /\ last' = [op |-> "DelHeader", rcv |-> r, name |-> name, value |-> <<>>]
    /\ UNCHANGED <<byteHeap, net, ghost>>

\* A store that folded the case of query names, as the header store does.
QueryKeyLowered(name) == ToLower(name)

\* The key a query parameter is stored and looked up under.
QueryKey(name) == name

GetQuery(r, name) ==
    /\ r \in ReqIds
    /\ reqs' = [reqs EXCEPT ![r].Query = QueryAddr(r)]
    /\ mapHeap' = HeapWithQuery(r)
    /\ LET m == QueryOf(r)
           k == QueryKey(name)
       IN  last' = [op |-> "GetQuery", rcv |-> r, name |-> name, value |-> <<>>,
                    res |-> IF k \in DOMAIN m THEN m[k] ELSE <<>>,
                    ok |-> k \in DOMAIN m]
    /\ UNCHANGED <<byteHeap, net, ghost>>

SetQuery(r, name, value) ==
    /\ r \in ReqIds
    /\ reqs' = [reqs EXCEPT ![r].Query = QueryAddr(r)]
    /\ mapHeap' = [HeapWithQuery(r) EXCEPT
                     ![QueryAddr(r)] = MapSet(QueryOf(r), QueryKey(name), value)]
    /\ last' = [op |-> "SetQuery", rcv |-> r, name |-> name, value |-> value]
    /\ UNCHANGED <<byteHeap, net, ghost>>

DelQuery(r, name) ==
    /\ r \in ReqIds
    /\ reqs' = [reqs EXCEPT ![r].Query = QueryAddr(r)]
    /\ mapHeap' = [HeapWithQuery(r) EXCEPT
                     ![QueryAddr(r)] = MapDelAll(QueryOf(r), {QueryKey(name)})]
    /\ last' = [op |-> "DelQuery", rcv |-> r, name |-> name, value |-> <<>>]
    /\ UNCHANGED <<byteHeap, net, ghost>>

\* The caller's own write, req.Headers[k] = v, on a map that exists.
WriteHeaders(r, k, v) ==
    /\ r \in ReqIds
    /\ reqs[r].Headers # Nil
    /\ mapHeap' = [mapHeap EXCEPT ![reqs[r].Headers] = MapSet(@, k, v)]
    /\ last' = [op |-> "WriteHeaders", rcv |-> r, name |-> k, value |-> v]
    /\ UNCHANGED <<reqs, byteHeap, net, ghost>>

\* The caller's own write, req.Query[k] = v, on a map that exists.
WriteQuery(r, k, v) ==
    /\ r \in ReqIds
    /\ reqs[r].Query # Nil
    /\ mapHeap' = [mapHeap EXCEPT ![reqs[r].Query] = MapSet(@, k, v)]
    /\ last' = [op |-> "WriteQuery", rcv |-> r, name |-> k, value |-> v]
    /\ UNCHANGED <<reqs, byteHeap, net, ghost>>

\* The caller's own write, req.Body[i] = b, inside the slice.
WriteBody(r, i, b) ==
    /\ r \in ReqIds
    /\ reqs[r].Body # Nil
    /\ i \in 1..Len(byteHeap[reqs[r].Body])
    /\ byteHeap' = [byteHeap EXCEPT ![reqs[r].Body][i] = b]
    /\ last' = [op |-> "WriteBody", rcv |-> r, name |-> <<>>, value |-> <<b>>]
    /\ UNCHANGED <<reqs, mapHeap, net, ghost>>

(***************************************************************************)
(* Copy                                                                    *)
(***************************************************************************)

\* A copy loop that wrote each entry under its lower-cased key.
CopiedMapLowered(m) ==
    [k \in {ToLower(x) : x \in DOMAIN m} |-> m[CHOOSE x \in DOMAIN m : ToLower(x) = k]]

\* for k, v := range m { c[k] = v }: the map the loop fills.
CopiedMap(m) == [k \in DOMAIN m |-> m[k]]

\* copy(dst, src) into make([]byte, len(src)).
CopiedBytes(b) == [i \in 1..Len(b) |-> b[i]]

\* The maps Copy allocates: one for Headers and one for Query, each only if
\* the receiver's is not nil.
CopyMaps(r) ==
    (IF reqs[r].Headers # Nil THEN << CopiedMap(HeadersOf(r)) >> ELSE <<>>)
    \o (IF reqs[r].Query # Nil THEN << CopiedMap(QueryOf(r)) >> ELSE <<>>)

\* A Copy that assigned the receiver's Headers map instead of filling a new
\* one.
CopyHeadersAddrShared(r) == reqs[r].Headers

\* The addresses the copy's fields hold.
CopyHeadersAddr(r) == IF reqs[r].Headers # Nil THEN Len(mapHeap) + 1 ELSE Nil

CopyQueryAddr(r) == IF reqs[r].Query # Nil THEN Len(mapHeap) + Len(CopyMaps(r)) ELSE Nil

\* A Copy that assigned the receiver's slice instead of copying its bytes.
CopyBodyAddrShared(r) == reqs[r].Body

CopyBodyAddr(r) == IF reqs[r].Body # Nil THEN Len(byteHeap) + 1 ELSE Nil

\* The Request Copy returns.
CopyOf(r) ==
    Request(reqs[r].URL, reqs[r].Method, CopyHeadersAddr(r), CopyQueryAddr(r),
            CopyBodyAddr(r), reqs[r].Timeout)

\* The heaps after Copy.
MapHeapAfterCopy(r) == mapHeap \o CopyMaps(r)

ByteHeapAfterCopy(r) ==
    IF reqs[r].Body # Nil THEN Append(byteHeap, CopiedBytes(BodyOf(r))) ELSE byteHeap

Copy(r) ==
    /\ r \in ReqIds
    /\ reqs' = Append(reqs, CopyOf(r))
    /\ mapHeap' = MapHeapAfterCopy(r)
    /\ byteHeap' = ByteHeapAfterCopy(r)
    /\ last' = [op |-> "Copy", rcv |-> r, name |-> <<>>, value |-> <<>>,
                new |-> Len(reqs) + 1]
    /\ UNCHANGED <<net, ghost>>

(***************************************************************************)
(* URLEncode                                                               *)
(***************************************************************************)

\* The values handed to URLEncode and to a template: a string, an int, a nil
\* interface, or (inside a template) a field or key that was not found.
StrVal(chars) == [t |-> "string", s |-> chars]

IntVal(n) == [t |-> "int", n |-> n]

NilVal == [t |-> "nil"]

NoValue == [t |-> "missing"]

RECURSIVE Digits(_)
\* The decimal digits of a natural number.
Digits(n) == IF n < 10 THEN << Chr(Ord("0") + n) >>
             ELSE Digits(n \div 10) \o << Chr(Ord("0") + (n % 10)) >>

\* fmt.Sprint of one value.
Sprint(v) ==
    CASE v.t = "string" -> v.s
      [] v.t = "int" -> IF v.n < 0 THEN <<"-">> \o Digits(-v.n) ELSE Digits(v.n)
      [] OTHER -> <<"<","n","i","l",">">>

UpperHex == <<"0","1","2","3","4","5","6","7","8","9","A","B","C","D","E","F">>

\* net/url shouldEscape in the mode of PathEscape (a path segment): letters,
\* digits and - _ . ~ are kept; of the reserved characters $ & + , / : ; = ? @
\* only / ; , ? are escaped; every other byte is escaped.
ShouldEscape(c) ==
    CASE IsLower(c) \/ IsUpper(c) \/ IsDigit(c) -> FALSE
      [] c \in {"-", "_", ".", "~"} -> FALSE
      [] c \in {"$", "&", "+", ",", "/", ":", ";", "=", "?", "@"} ->
           c \in {"/", ";", ",", "?"}
      [] OTHER -> TRUE

\* "%" and the two upper-case hex digits of the byte.
PercentHex(c) == << "%", UpperHex[(Ord(c) \div 16) + 1], UpperHex[(Ord(c) % 16) + 1] >>

PathEscape(s) ==
    Concat([i \in 1..Len(s) |-> IF ShouldEscape(s[i]) THEN PercentHex(s[i]) ELSE << s[i] >>])

URLEncode(v) == PathEscape(Sprint(v))

(***************************************************************************)
(* The URL template: text/template, as formatPath uses it                  *)
(***************************************************************************)

URLEncodeName == <<"U","R","L","E","n","c","o","d","e">>

\* The functions makeTemplate registers.
FuncMap == {URLEncodeName}

PrintName == <<"p","r","i","n","t">>

\* The functions of text/template itself that the templates here use.
Builtins == {PrintName}

\* The least i >= from at which pat occurs in s, or 0.
IndexFrom(s, pat, from) ==
    LET hits == {i \in from..(Len(s) - Len(pat) + 1) : SubSeq(s, i, i + Len(pat) - 1) = pat}
    IN  IF hits = {} THEN 0 ELSE CHOOSE i \in hits : \A j \in hits : i <= j

RECURSIVE TrimSpace(_)
TrimSpace(s) ==
    IF s = <<>> THEN s
    ELSE IF Head(s) = " " THEN TrimSpace(Tail(s))
    ELSE IF s[Len(s)] = " " THEN TrimSpace(SubSeq(s, 1, Len(s) - 1))
    ELSE s

RECURSIVE SplitPipe(_)
\* The commands of a pipeline: the pieces between the | characters.
SplitPipe(s) ==
    LET i == IndexFrom(s, <<"|">>, 1)
    IN  IF i = 0 THEN << TrimSpace(s) >>
        ELSE << TrimSpace(SubSeq(s, 1, i - 1)) >> \o SplitPipe(SubSeq(s, i + 1, Len(s)))

IsIdent(s) ==
    /\ s # <<>>
    /\ \A i \in 1..Len(s) : IsLower(s[i]) \/ IsUpper(s[i]) \/ IsDigit(s[i]) \/ s[i] = "_"

TextNode(s) == [kind |-> "text", s |-> s]

ActionNode(field, funcs) == [kind |-> "action", field |-> field, funcs |-> funcs]

ParseFailed == [err |-> TRUE, nodes |-> <<>>]

\* One action {{ .Field | f | g }}: a field of the data, piped through
\* functions, each of which must be defined when the template is parsed.
ParseAction(body) ==
    LET cmds == SplitPipe(body)
        first == cmds[1]
        funcs == Tail(cmds)
    IN  IF /\ Len(first) >= 2
           /\ first[1] = "."
           /\ IsIdent(Tail(first))
           /\ \A i \in 1..Len(funcs) : funcs[i] \in FuncMap \cup Builtins
        THEN [err |-> FALSE, nodes |-> << ActionNode(Tail(first), funcs) >>]
        ELSE ParseFailed

RECURSIVE ParseFrom(_, _)
\* Template.Parse from position i: text up to the next "{{", the action up to
\* the "}}" that closes it ("unclosed action" if none does), and the rest.
ParseFrom(s, i) ==
    LET open == IndexFrom(s, <<"{","{">>, i)
        text(a, b) == IF a > b THEN <<>> ELSE << TextNode(SubSeq(s, a, b)) >>
    IN  IF open = 0 THEN [err |-> FALSE, nodes |-> text(i, Len(s))]
        ELSE LET close == IndexFrom(s, <<"}","}">>, open + 2)
             IN  IF close = 0 THEN ParseFailed
                 ELSE LET act == ParseAction(SubSeq(s, open + 2, close - 1))
                          rest == ParseFrom(s, close + 2)
                      IN  IF act.err \/ rest.err THEN ParseFailed
                          ELSE [err |-> FALSE,
                                nodes |-> text(i, open - 1) \o act.nodes \o rest.nodes]

\* makeTemplate().Parse(req.URL)
Parse(url) == ParseFrom(url, 1)

\* The data handed to ParsePathParams: a struct with fields, a map with keys,
\* or nil.
StructData(fields) == [kind |-> "struct", fields |-> fields]

MapData(fields) == [kind |-> "map", fields |-> fields]

NilData == [kind |-> "nil", fields |-> <<>>]

\* Whether evaluating .Field fails: a struct without the field does; a map
\* without the key and nil data do not (the default missingkey option).
FieldFails(data, field) == data.kind = "struct" /\ field \notin DOMAIN data.fields

\* The value of .Field.
FieldValue(data, field) ==
    IF field \in DOMAIN data.fields THEN data.fields[field] ELSE NoValue

\* A function of the template called on the value piped into it: a value
\* that was not found reaches the function as a nil interface.
CallFunc(name, v) ==
    LET arg == IF v.t = "missing" THEN NilVal ELSE v
    IN  IF name = URLEncodeName THEN StrVal(URLEncode(arg)) ELSE StrVal(Sprint(arg))

RECURSIVE CallFuncs(_, _)
CallFuncs(funcs, v) ==
    IF funcs = <<>> THEN v ELSE CallFuncs(Tail(funcs), CallFunc(Head(funcs), v))

\* What an action prints: a value that was not found prints as "<no value>".
Printed(v) == IF v.t = "missing" THEN <<"<","n","o"," ","v","a","l","u","e",">">> ELSE Sprint(v)

RECURSIVE Execute(_, _)
\* tmpl.Execute(&buf, data): the first failing action ends it with an error.
Execute(nodes, data) ==
    IF nodes = <<>> THEN [err |-> FALSE, out |-> <<>>]
    ELSE LET n == Head(nodes)
             rest == Execute(Tail(nodes), data)
         IN  IF n.kind = "text"
             THEN [err |-> rest.err, out |-> n.s \o rest.out]
             ELSE IF FieldFails(data, n.field) THEN [err |-> TRUE, out |-> <<>>]
             ELSE [err |-> rest.err,
                   out |-> Printed(CallFuncs(n.funcs, FieldValue(data, n.field))) \o rest.out]

\* formatPath: ("", err) when parsing or executing fails.
FormatPath(url, data) ==
    LET t == Parse(url)
        x == Execute(t.nodes, data)
    IN  IF t.err \/ x.err THEN [err |-> TRUE, out |-> <<>>]
        ELSE [err |-> FALSE, out |-> x.out]

\* ParsePathParams writing the URL into its receiver as well.
ParsedRequestsInPlace(r, u) ==
    Append([reqs EXCEPT ![r].URL = u], [CopyOf(r) EXCEPT !.URL = u])

\* ParsePathParams returning the copy with the template still in it.
ParsedRequestsKeepURL(r, u) == Append(reqs, CopyOf(r))

\* r := req.Copy(); r.URL = u: the Requests alive after ParsePathParams.
ParsedRequests(r, u) == Append(reqs, [CopyOf(r) EXCEPT !.URL = u])

\* What MustParsePathParams does with what ParsePathParams returned: it
\* panics on an error, and returns the Request otherwise.
MustParseReturn(ret) ==
    [op |-> "MustParsePathParams", rcv |-> ret.rcv, name |-> <<>>, value |-> <<>>,
     data |-> ret.data, panic |-> ret.err, new |-> ret.new, call |-> ret]

\* ParsePathParams, called by the caller or by MustParsePathParams.
ParsePathParamsFrom(r, data, must) ==
    /\ r \in ReqIds
    /\ LET f == FormatPath(reqs[r].URL, data)
           failed == [op |-> "ParsePathParams", rcv |-> r, name |-> <<>>,
                      value |-> <<>>, data |-> data, err |-> TRUE, new |-> 0]
           done == [op |-> "ParsePathParams", rcv |-> r, name |-> <<>>,
                    value |-> <<>>, data |-> data, err |-> FALSE,
                    new |-> Len(reqs) + 1]
       IN  IF f.err
           THEN /\ last' = IF must THEN MustParseReturn(failed) ELSE failed
                /\ UNCHANGED <<reqs, mapHeap, byteHeap>>
           ELSE /\ reqs' = ParsedRequests(r, f.out)
                /\ mapHeap' = MapHeapAfterCopy(r)
                /\ byteHeap' = ByteHeapAfterCopy(r)
                /\ last' = IF must THEN MustParseReturn(done) ELSE done
    /\ UNCHANGED net

ParsePathParams(r, data) == ParsePathParamsFrom(r, data, FALSE)

MustParsePathParams(r, data) == ParsePathParamsFrom(r, data, TRUE)

(***************************************************************************)
(* Send                                                                    *)
(***************************************************************************)

PUT == 2

DELETE == 3

OPTIONS == 4

HEAD == 5

CONNECT == 6

TRACE == 7

PATCH == 8

MethodTokens ==
    << <<"G","E","T">>, <<"P","O","S","T">>, <<"P","U","T">>,
       <<"D","E","L","E","T","E">>, <<"O","P","T","I","O","N","S">>,
       <<"H","E","A","D">>, <<"C","O","N","N","E","C","T">>,
       <<"T","R","A","C","E">>, <<"P","A","T","C","H">> >>

\* HTTPMethod.String with no default: the tokens taken round and round.
MethodStringWrapped(m) == MethodTokens[(m % Len(MethodTokens)) + 1]

\* HTTPMethod.String(): the token of an enumerated method, "" for any other.
MethodString(m) == IF m \in GET..PATCH THEN MethodTokens[m + 1] ELSE <<>>

RECURSIVE StrLess(_, _)
\* a < b on Go strings (byte-wise).
StrLess(a, b) ==
    CASE b = <<>> -> FALSE
      [] a = <<>> -> TRUE
      [] Ord(a[1]) /= Ord(b[1]) -> Ord(a[1]) < Ord(b[1])
      [] OTHER -> StrLess(Tail(a), Tail(b))

RECURSIVE SortedKeys(_)
\* sort.Strings over the keys of a map.
SortedKeys(ks) ==
    IF ks = {} THEN <<>>
    ELSE LET k == CHOOSE x \in ks : \A y \in ks \ {x} : StrLess(x, y)
         IN  <<k>> \o SortedKeys(ks \ {k})

\* net/url QueryEscape: letters, digits and - _ . ~ are kept, a space becomes
\* "+", every other byte is escaped.
QueryEscape(s) ==
    Concat([i \in 1..Len(s) |->
              CASE s[i] = " " -> <<"+">>
                [] IsLower(s[i]) \/ IsUpper(s[i]) \/ IsDigit(s[i]) -> << s[i] >>
                [] s[i] \in {"-", "_", ".", "~"} -> << s[i] >>
                [] OTHER -> PercentHex(s[i])])

RECURSIVE JoinAmp(_)
JoinAmp(parts) ==
    CASE parts = <<>> -> <<>>
      [] Len(parts) = 1 -> parts[1]
      [] OTHER -> parts[1] \o <<"&">> \o JoinAmp(Tail(parts))

\* url.Values.Encode() of the values set from a map: "k=v" pairs, escaped,
\* sorted by key, joined by "&".
Encode(m) ==
    LET ks == SortedKeys(DOMAIN m)
    IN  JoinAmp([i \in 1..Len(ks) |->
                   QueryEscape(ks[i]) \o <<"=">> \o QueryEscape(m[ks[i]])])

NoError == "nil"

URLRequired == "URL is required"

\* getURL without its first check.
GetURLNoCheck(r) ==
    LET q == Encode(QueryOf(r))
    IN  [u |-> IF q /= <<>> THEN reqs[r].URL \o <<"?">> \o q ELSE reqs[r].URL,
         err |-> NoError]

GetURL(r) ==
    IF reqs[r].URL = <<>> THEN [u |-> <<>>, err |-> URLRequired]
    ELSE LET q == Encode(QueryOf(r))
         IN  [u |-> IF q /= <<>> THEN reqs[r].URL \o <<"?">> \o q ELSE reqs[r].URL,
              err |-> NoError]

\* url.Parse failing in getScheme: a ":" with no scheme before it.
ParseFails(u) == u /= <<>> /\ u[1] = ":"

\* http.NewRequest(method, u, body): an empty method means GET.
NewRequest(method, u, body) ==
    IF ParseFails(u) THEN [err |-> TRUE]
    ELSE [err |-> FALSE,
          req |-> [Method |-> IF method = <<>> THEN MethodTokens[GET + 1] ELSE method,
                   URL |-> u, Header |-> EmptyMap, Body |-> body]]

ToUpperChar(c) == IF IsLower(c) THEN Chr(Ord(c) - 32) ELSE c

IsTokenChar(c) ==
    \/ IsLower(c) \/ IsUpper(c) \/ IsDigit(c)
    \/ c \in {"!", "#", "$", "%", "&", "'", "*", "+", "-", ".", "^", "_",
              "backtick", "|", "~"}

\* textproto.CanonicalMIMEHeaderKey, which http.Header.Set applies to the key.
CanonicalKey(k) ==
    IF \E i \in 1..Len(k) : ~IsTokenChar(k[i]) THEN k
    ELSE [i \in 1..Len(k) |->
            IF i = 1 \/ k[i - 1] = "-" THEN ToUpperChar(k[i]) ELSE ToLowerChar(k[i])]

\* The headers of the transport request after the loop over req.Headers:
\* where two keys have one canonical form, the one the loop meets last stays.
SentHeaders(m) ==
    LET cs == {CanonicalKey(k) : k \in DOMAIN m}
    IN  {h \in [cs -> {<< m[k] >> : k \in DOMAIN m}] :
           \A c \in cs : \E k \in DOMAIN m : CanonicalKey(k) = c /\ h[c] = << m[k] >>}

StatusCodes == {99, 101, 200, 399, 400, 500}

CanonContentType == CanonicalKey(ContentTypeKey)

XEmpty == <<"X","-","E","m","p","t","y">>

\* The headers of a reply: none, one name with one value, a name with two
\* values beside a name with none.
ReplyHeaders ==
    { EmptyMap,
      [k \in {CanonContentType} |-> << <<"x">> >>],
      [k \in {CanonContentType, XEmpty} |->
         IF k = XEmpty THEN <<>> ELSE << <<"x">>, <<"y">> >>] }

HTTPPrefix == <<"h","t","t","p",":","/","/">>

\* Whether the transport has a scheme to speak to the URL's host.
Reachable(u) == Len(u) > Len(HTTPPrefix) /\ SubSeq(u, 1, Len(HTTPPrefix)) = HTTPPrefix

\* What client.Do can come back with: an error, or a reply (of any status;
\* of any headers and body) whose body then reads in full or fails to.
Outcomes(u) ==
    {[kind |-> "error"]}
    \cup (IF Reachable(u)
          THEN {[kind |-> "reply", StatusCode |-> c, Header |-> EmptyMap,
                 Body |-> b, readErr |-> FALSE] : c \in StatusCodes, b \in Bodies}
               \cup {[kind |-> "reply", StatusCode |-> 200, Header |-> h, Body |-> b,
                      readErr |-> FALSE] : h \in ReplyHeaders, b \in Bodies}
               \cup {[kind |-> "reply", StatusCode |-> 200, Header |-> EmptyMap,
                      Body |-> <<>>, readErr |-> TRUE]}
          ELSE {})

\* A loop that kept the last value of a repeated reply header.
ResponseHeadersLastValue(h) ==
    LET named == {k \in DOMAIN h : Len(h[k]) > 0}
    IN  {[l \in {ToLower(k) : k \in named} |->
            LET k == CHOOSE k \in named : ToLower(k) = l IN h[k][Len(h[k])]]}

\* rHeaders after the loop over httpResponse.Header.
ResponseHeaders(h) ==
    LET named == {k \in DOMAIN h : Len(h[k]) > 0}
        ls == {ToLower(k) : k \in named}
    IN  {rh \in [ls -> {h[k][1] : k \in named}] :
           \A l \in ls : \E k \in named : ToLower(k) = l /\ rh[l] = h[k][1]}

NilResponse == [ptr |-> Nil]

\* A Response, given the addresses its Headers map and its Body have in the
\* heap.
Response(ok, statusCode, headers, body) ==
    [Ok |-> ok, StatusCode |-> statusCode, Headers |-> headers, Body |-> body]

RespIds == 1..Len(resps)

ResponseHeadersOf(p) == IF resps[p].Headers = Nil THEN EmptyMap ELSE mapHeap[resps[p].Headers]

ResponseBodyOf(p) == IF resps[p].Body = Nil THEN <<>> ELSE byteHeap[resps[p].Body]

\* Response.GetHeader leaving a nil Headers map nil.
ResponseHeadersAddrKeptNil(p) == resps[p].Headers

\* The address of res.Headers once Response.GetHeader has made the map.
ResponseHeadersAddr(p) == IF resps[p].Headers = Nil THEN Len(mapHeap) + 1 ELSE resps[p].Headers

\* Response.GetHeader: makes the map if it is nil, then returns the value
\* of the first key its range loop meets that matches ignoring case.
ResponseGetHeader(p, name) ==
    /\ p \in RespIds
    /\ resps' = [resps EXCEPT ![p].Headers = ResponseHeadersAddr(p)]
    /\ mapHeap' = IF resps[p].Headers = Nil THEN Append(mapHeap, EmptyMap) ELSE mapHeap
    /\ LET m == ResponseHeadersOf(p)
       IN  \/ \E k \in MatchingKeys(m, name) :
                last' = [op |-> "Response.GetHeader", rcv |-> p, name |-> name,
                         value |-> <<>>, res |-> m[k], ok |-> TRUE]
           \/ /\ MatchingKeys(m, name) = {}
              /\ last' = [op |-> "Response.GetHeader", rcv |-> p, name |-> name,
                          value |-> <<>>, res |-> <<>>, ok |-> FALSE]
    /\ UNCHANGED <<reqs, byteHeap, net, ghost>>

Returned(r, res, err) ==
    [op |-> "Send", rcv |-> r, name |-> <<>>, value |-> <<>>, res |-> res, err |-> err]

\* A Send that closed the body after reading it, on the path where the
\* read succeeds only.
StreamAtReturnNoDefer(o) ==
    CASE o.kind /= "reply" -> "none"
      [] o.kind = "reply" /\ o.readErr -> "open"
      [] OTHER -> "closed"

\* The reply's body stream when Send returns: there is none when client.Do
\* failed; after a reply the loop over the reply's headers has no way out
\* of Send, the Close is then deferred, and it runs at whichever return
\* follows, the read error's or the last.
StreamAtReturn(o) ==
    LET deferred == o.kind = "reply"
    IN  CASE o.kind /= "reply" -> "none"
          [] o.kind = "reply" /\ deferred -> "closed"
          [] OTHER -> "open"

\* What the transport was handed and what it came back with.
Exchange(httpRequest, timeout, outcome) ==
    [req |-> httpRequest, timeout |-> timeout, reply |-> outcome,
     stream |-> StreamAtReturn(outcome)]

\* A Send that called client.Do again after the transport failed.
AttemptsRetried(o) == IF o.kind = "error" THEN << o, o >> ELSE << o >>

\* What the calls of client.Do in one Send came back with: there is one
\* call, outside any loop.
Attempts(o) == << o >>

\* The exchanges one Send adds to those the transport has seen.
Exchanges(httpRequest, timeout, o) ==
    [i \in 1..Len(Attempts(o)) |-> Exchange(httpRequest, timeout, Attempts(o)[i])]

\* Send failing on a reply whose status is 400 or more as well.
FailureOnStatus(o) ==
    CASE o.kind = "error" -> "transport"
      [] o.kind = "reply" /\ o.readErr -> "read"
      [] o.kind = "reply" /\ ~o.readErr /\ o.StatusCode >= 400 -> "status"
      [] OTHER -> NoError

\* The error Send returns after client.Do: the transport's, the body
\* read's, or none.
Failure(o) ==
    CASE o.kind = "error" -> "transport"
      [] o.kind = "reply" /\ o.readErr -> "read"
      [] OTHER -> NoError

\* MustSend swallowing the error and returning nil.
MustSendReturnNoPanic(ret) ==
    [op |-> "MustSend", rcv |-> ret.rcv, name |-> <<>>, value |-> <<>>,
     panic |-> FALSE, res |-> ret.res, call |-> ret]

\* What MustSend does with what Send returned: it panics on an error, and
\* returns the Response otherwise.
MustSendReturn(ret) ==
    [op |-> "MustSend", rcv |-> ret.rcv, name |-> <<>>, value |-> <<>>,
     panic |-> ret.err # NoError, res |-> ret.res, call |-> ret]

\* Send, called by the caller or by MustSend.
SendFrom(r, must) ==
    /\ r \in ReqIds
    /\ LET g == GetURL(r)
           n == NewRequest(MethodString(reqs[r].Method), g.u, BodyOf(r))
           Ret(ret) == IF must THEN MustSendReturn(ret) ELSE ret
       IN  CASE g.err /= NoError ->
                  /\ last' = Ret(Returned(r, NilResponse, g.err))
                  /\ UNCHANGED <<net, mapHeap, byteHeap, resps>>
             [] g.err = NoError /\ n.err ->
                  /\ last' = Ret(Returned(r, NilResponse, "error creating request"))
                  /\ UNCHANGED <<net, mapHeap, byteHeap, resps>>
             [] OTHER ->
                  \E h \in SentHeaders(HeadersOf(r)), o \in Outcomes(g.u) :
                     /\ net' = net \o Exchanges([n.req EXCEPT !.Header = h],
                                                reqs[r].Timeout, o)
                     /\ IF Failure(o) /= NoError
                        THEN /\ last' = Ret(Returned(r, NilResponse, Failure(o)))
                             /\ UNCHANGED <<mapHeap, byteHeap, resps>>
                        ELSE \E rh \in ResponseHeaders(o.Header) :
                                /\ mapHeap' = Append(mapHeap, rh)
                                /\ byteHeap' = Append(byteHeap, o.Body)
                                /\ resps' = Append(resps,
                                                   Response(o.StatusCode < 400, o.StatusCode,
                                                            Len(mapHeap) + 1,
                                                            Len(byteHeap) + 1))
                                /\ last' = Ret(Returned(r, [ptr |-> Len(resps) + 1],
                                                    NoError))
    /\ UNCHANGED reqs

Send(r) == SendFrom(r, FALSE)

MustSend(r) == SendFrom(r, TRUE)

(***************************************************************************)
(* The URL as net/url reads it                                             *)
(***************************************************************************)

RECURSIVE SplitOn(_, _)
\* strings.Split on a one-character separator.
SplitOn(s, c) ==
    LET i == IndexFrom(s, <<c>>, 1)
    IN  IF i = 0 THEN << s >>
        ELSE << SubSeq(s, 1, i - 1) >> \o SplitOn(SubSeq(s, i + 1, Len(s)), c)

\* strings.Cut on a one-character separator.
Cut(s, c) ==
    LET i == IndexFrom(s, <<c>>, 1)
    IN  IF i = 0 THEN [before |-> s, after |-> <<>>, found |-> FALSE]
        ELSE [before |-> SubSeq(s, 1, i - 1), after |-> SubSeq(s, i + 1, Len(s)),
              found |-> TRUE]

IsHex(c) == IsDigit(c) \/ ToUpperChar(c) \in {"A", "B", "C", "D", "E", "F"}

HexVal(c) == (CHOOSE i \in 1..16 : UpperHex[i] = ToUpperChar(c)) - 1

\* Whether every "%" of s is followed by two hex digits.
EscapesValid(s) ==
    \A i \in 1..Len(s) :
       s[i] = "%" => i + 2 <= Len(s) /\ IsHex(s[i + 1]) /\ IsHex(s[i + 2])

RECURSIVE UnescapeFrom(_, _)
UnescapeFrom(s, i) ==
    CASE i > Len(s) -> <<>>
      [] i <= Len(s) /\ s[i] = "%" ->
           << Chr(16 * HexVal(s[i + 1]) + HexVal(s[i + 2])) >> \o UnescapeFrom(s, i + 3)
      [] i <= Len(s) /\ s[i] = "+" -> <<" ">> \o UnescapeFrom(s, i + 1)
      [] OTHER -> << s[i] >> \o UnescapeFrom(s, i + 1)

\* net/url QueryUnescape of a string whose escapes are valid.
QueryUnescape(s) == UnescapeFrom(s, 1)

RECURSIVE ParsePairs(_, _)
\* net/url parseQuery over the "&"-separated parts: an empty part, a part
\* with a ";" and a part with a bad escape are passed over; the values of a
\* name are kept in order.
ParsePairs(parts, m) ==
    IF parts = <<>> THEN m
    ELSE LET kv == Cut(parts[1], "=")
             skip == \/ parts[1] = <<>>
                     \/ IndexFrom(parts[1], <<";">>, 1) # 0
                     \/ ~EscapesValid(kv.before)
                     \/ ~EscapesValid(kv.after)
             k == QueryUnescape(kv.before)
             v == QueryUnescape(kv.after)
         IN  ParsePairs(Tail(parts),
                        IF skip THEN m
                        ELSE IF k \in DOMAIN m THEN [m EXCEPT ![k] = Append(@, v)]
                        ELSE MapSet(m, k, << v >>))

ParseQuery(q) == ParsePairs(SplitOn(q, "&"), EmptyMap)

\* The RawQuery url.Parse finds in a URL: what follows the first "?" of the
\* part before the first "#".
RawQuery(u) == Cut(Cut(u, "#").before, "?").after

\* The query parameters the server reads from the request's URL.
ServerQuery(u) == ParseQuery(RawQuery(u))

(***************************************************************************)
(* JSON                                                                    *)
(*                                                                         *)
(* The characters of the model are the printable ASCII ones, one byte that *)
(* is no UTF-8, and U+FFFD as one element; escapes and code points outside *)
(* these do not occur in the texts the model reads.                        *)
(***************************************************************************)

Quote == "dquote"

Backslash == "backslash"

\* A byte that is not valid UTF-8, and the character encoding/json puts in
\* its place.
InvalidByte == "xFF"

ReplacementChar == "uFFFD"

\* The values an interface{} holds besides a string, an int and nil.
BoolVal(b) == [t |-> "bool", b |-> b]

FloatVal(lit) == [t |-> "float64", lit |-> lit]

ObjVal(fields) == [t |-> "object", fields |-> fields]

ArrVal(elems) == [t |-> "array", elems |-> elems]

ChanVal == [t |-> "chan"]

DigitChars == {"0", "1", "2", "3", "4", "5", "6", "7", "8", "9"}

At(s, i) == IF i \in 1..Len(s) THEN s[i] ELSE "eof"

RECURSIVE SkipWS(_, _)
SkipWS(s, i) == IF At(s, i) = " " THEN SkipWS(s, i + 1) ELSE i

RECURSIVE ScanDigits(_, _)
ScanDigits(s, i) == IF At(s, i) \in DigitChars THEN ScanDigits(s, i + 1) ELSE i

NoParse == [ok |-> FALSE]

Parsed(v, next) == [ok |-> TRUE, v |-> v, next |-> next]

HasAt(s, i, lit) == i + Len(lit) - 1 <= Len(s) /\ SubSeq(s, i, i + Len(lit) - 1) = lit

\* The character of a \uXXXX escape.
CodePoint(n) == IF n = 65533 THEN ReplacementChar ELSE Chr(n)

RECURSIVE ScanString(_, _, _)
\* The text of a JSON string, from after its opening quote.
ScanString(s, i, acc) ==
    LET c == At(s, i)
        e == At(s, i + 1)
    IN  IF c = "eof" THEN NoParse
        ELSE IF c = Quote THEN Parsed(acc, i + 1)
        ELSE IF c = InvalidByte THEN ScanString(s, i + 1, Append(acc, ReplacementChar))
        ELSE IF c # Backslash THEN ScanString(s, i + 1, Append(acc, c))
        ELSE IF e \in {Quote, Backslash, "/"} THEN ScanString(s, i + 2, Append(acc, e))
        ELSE IF e = "u" /\ i + 5 <= Len(s) /\ \A k \in 2..5 : IsHex(s[i + k])
             THEN ScanString(s, i + 6,
                             Append(acc, CodePoint(4096 * HexVal(s[i + 2]) + 256 * HexVal(s[i + 3])
                                                   + 16 * HexVal(s[i + 4]) + HexVal(s[i + 5]))))
        ELSE NoParse

\* A JSON number at i: the index after it, or 0.
NumberEnd(s, i) ==
    LET a == IF At(s, i) = "-" THEN i + 1 ELSE i
        b == IF At(s, a) = "0" THEN a + 1 ELSE ScanDigits(s, a)
        c == IF At(s, b) = "." THEN ScanDigits(s, b + 1) ELSE b
        d == IF At(s, c) \in {"e", "E"}
             THEN (IF At(s, c + 1) \in {"+", "-"} THEN c + 2 ELSE c + 1)
             ELSE c
        f == IF d = c THEN c ELSE ScanDigits(s, d)
    IN  IF b = a \/ (At(s, b) = "." /\ c = b + 1) \/ (d # c /\ f = d) THEN 0 ELSE f

RECURSIVE ParseValue(_, _)
RECURSIVE ParseMembers(_, _, _)
RECURSIVE ParseElems(_, _, _)

\* The members of a JSON object, from its first name on; a name met again
\* takes the later value.
ParseMembers(s, i, m) ==
    IF At(s, i) # Quote THEN NoParse
    ELSE LET k == ScanString(s, i + 1, <<>>)
         IN  IF ~k.ok \/ At(s, SkipWS(s, k.next)) # ":" THEN NoParse
             ELSE LET v == ParseValue(s, SkipWS(s, SkipWS(s, k.next) + 1))
                  IN  IF ~v.ok THEN NoParse
                      ELSE LET j == SkipWS(s, v.next)
                               mm == MapSet(m, k.v, v.v)
                           IN  IF At(s, j) = "," THEN ParseMembers(s, SkipWS(s, j + 1), mm)
                               ELSE IF At(s, j) = "}" THEN Parsed(ObjVal(mm), j + 1)
                               ELSE NoParse

\* The elements of a JSON array, from its first one on.
ParseElems(s, i, es) ==
    LET v == ParseValue(s, i)
    IN  IF ~v.ok THEN NoParse
        ELSE LET j == SkipWS(s, v.next)
             IN  IF At(s, j) = "," THEN ParseElems(s, SkipWS(s, j + 1), Append(es, v.v))
                 ELSE IF At(s, j) = "]" THEN Parsed(ArrVal(Append(es, v.v)), j + 1)
                 ELSE NoParse

\* The JSON value that starts at i.
ParseValue(s, i) ==
    LET c == At(s, i)
    IN  IF c = Quote
        THEN LET r == ScanString(s, i + 1, <<>>)
             IN  IF r.ok THEN Parsed(StrVal(r.v), r.next) ELSE NoParse
        ELSE IF c = "{"
        THEN IF At(s, SkipWS(s, i + 1)) = "}"
             THEN Parsed(ObjVal(EmptyMap), SkipWS(s, i + 1) + 1)
             ELSE ParseMembers(s, SkipWS(s, i + 1), EmptyMap)
        ELSE IF c = "["
        THEN IF At(s, SkipWS(s, i + 1)) = "]"
             THEN Parsed(ArrVal(<<>>), SkipWS(s, i + 1) + 1)
             ELSE ParseElems(s, SkipWS(s, i + 1), <<>>)
        ELSE IF HasAt(s, i, <<"t","r","u","e">>) THEN Parsed(BoolVal(TRUE), i + 4)
        ELSE IF HasAt(s, i, <<"f","a","l","s","e">>) THEN Parsed(BoolVal(FALSE), i + 5)
        ELSE IF HasAt(s, i, <<"n","u","l","l">>) THEN Parsed(NilVal, i + 4)
        ELSE IF c \in DigitChars \cup {"-"} /\ NumberEnd(s, i) # 0
        THEN Parsed(FloatVal(SubSeq(s, i, NumberEnd(s, i) - 1)), NumberEnd(s, i))
        ELSE NoParse

\* A map[string]interface{}: nil, or the entries it holds.
NilMapping == [nil |-> TRUE, m |-> EmptyMap]

Mapping(m) == [nil |-> FALSE, m |-> m]

\* json.Unmarshal(body, &data), data an empty map: a text that is not one
\* JSON value is a syntax error; an object fills the map; null sets the map
\* to nil and is no error; any other value is a type error.
Unmarshal(body) ==
    LET p == ParseValue(body, SkipWS(body, 1))
    IN  IF ~p.ok \/ SkipWS(body, p.next) <= Len(body)
        THEN [err |-> "syntax", data |-> Mapping(EmptyMap)]
        ELSE IF p.v.t = "object" THEN [err |-> NoError, data |-> Mapping(p.v.fields)]
        ELSE IF p.v.t = "nil" THEN [err |-> NoError, data |-> NilMapping]
        ELSE [err |-> "type", data |-> Mapping(EmptyMap)]

\* Response.JSON on a body.
JSON(body) ==
    LET u == Unmarshal(body)
    IN  IF u.err # NoError THEN [data |-> NilMapping, err |-> u.err]
        ELSE [data |-> u.data, err |-> NoError]

\* The JSON string literal of a Go string, as encoding/json writes it: the
\* quote and the backslash escaped, "<", ">" and "&" written as \u00XX, a
\* byte that is no UTF-8 written as \ufffd.
EncodeString(s) ==
    << Quote >>
    \o Concat([i \in 1..Len(s) |->
                 CASE s[i] = Quote -> << Backslash, Quote >>
                   [] s[i] = Backslash -> << Backslash, Backslash >>
                   [] s[i] = "<" -> << Backslash, "u", "0", "0", "3", "c" >>
                   [] s[i] = ">" -> << Backslash, "u", "0", "0", "3", "e" >>
                   [] s[i] = "&" -> << Backslash, "u", "0", "0", "2", "6" >>
                   [] s[i] = InvalidByte -> << Backslash, "u", "f", "f", "f", "d" >>
                   [] OTHER -> << s[i] >>])
    \o << Quote >>

RECURSIVE JoinComma(_)
JoinComma(parts) ==
    IF parts = <<>> THEN <<>>
    ELSE IF Len(parts) = 1 THEN parts[1]
    ELSE parts[1] \o <<",">> \o JoinComma(Tail(parts))

RECURSIVE MarshalValue(_)
\* json.Marshal of one value: the text, or an error for a type JSON has no
\* form for. The names of a map come sorted.
MarshalValue(v) ==
    CASE v.t = "string" -> [err |-> FALSE, out |-> EncodeString(v.s)]
      [] v.t = "int" -> [err |-> FALSE, out |-> Sprint(v)]
      [] v.t = "float64" -> [err |-> FALSE, out |-> v.lit]
      [] v.t = "bool" ->
           [err |-> FALSE,
            out |-> IF v.b THEN <<"t","r","u","e">> ELSE <<"f","a","l","s","e">>]
      [] v.t = "nil" -> [err |-> FALSE, out |-> <<"n","u","l","l">>]
      [] v.t = "array" ->
           LET es == [i \in 1..Len(v.elems) |-> MarshalValue(v.elems[i])]
           IN  [err |-> \E i \in 1..Len(es) : es[i].err,
                out |-> <<"[">> \o JoinComma([i \in 1..Len(es) |->
                                                IF es[i].err THEN <<>> ELSE es[i].out])
                        \o <<"]">>]
      [] v.t = "object" ->
           LET ks == SortedKeys(DOMAIN v.fields)
               ms == [i \in 1..Len(ks) |-> MarshalValue(v.fields[ks[i]])]
           IN  [err |-> \E i \in 1..Len(ms) : ms[i].err,
                out |-> <<"{">> \o JoinComma([i \in 1..Len(ks) |->
                                                EncodeString(ks[i]) \o <<":">>
                                                \o (IF ms[i].err THEN <<>> ELSE ms[i].out)])
                        \o <<"}">>]
      [] OTHER -> [err |-> TRUE, out |-> <<>>]

\* json.Marshal(data), data a map[string]interface{}: a nil map is null.
Marshal(data) == IF data.nil THEN MarshalValue(NilVal) ELSE MarshalValue(ObjVal(data.m))

\* JSONMust(data): the bytes, or a panic.
JSONMust(data) ==
    LET r == Marshal(data)
    IN  IF r.err THEN [panic |-> TRUE, out |-> <<>>] ELSE [panic |-> FALSE, out |-> r.out]

(***************************************************************************)
(* Construction                                                            *)
(***************************************************************************)

NoNet == <<>>

NoGhost == [how |-> "none"]

\* &Request{}: every field zero.
ZeroRequest == Request(<<>>, GET, Nil, Nil, Nil, 0)

NewGetRequest(url) == Request(url, GET, Nil, Nil, Nil, 0)

\* NewPostRequest, given the addresses its Headers literal and the caller's
\* body slice have in the heap.
NewPostRequest(url, headersAddr, bodyAddr) == Request(url, POST, headersAddr, Nil, bodyAddr, 0)

\* The map literal of NewPostRequest.
PostHeaders(contentType) == [k \in {ContentTypeKey} |-> contentType]

\* The state after one Request was built by a literal, its Headers assigned
\* directly (keys of any case) or left nil; NewGetRequest builds such a one.
InitLiteral ==
    \E url \in URLs, m \in DirectMaps, withMap \in BOOLEAN :
        /\ reqs = << Request(url, GET, IF withMap THEN 1 ELSE Nil, Nil, Nil, 0) >>
        /\ mapHeap = IF withMap THEN <<m>> ELSE <<>>
        /\ withMap \/ m = EmptyMap
        /\ withMap \/ reqs[1] = NewGetRequest(url)
        /\ byteHeap = <<>>

\* The state after NewPostRequest(url, ct, body).
InitPost ==
    \E url \in URLs \ {<<>>}, ct \in Values, body \in Bodies :
        /\ reqs = << NewPostRequest(url, 1, 1) >>
        /\ mapHeap = << PostHeaders(ct) >>
        /\ byteHeap = <<body>>

Init ==
    /\ InitLiteral \/ InitPost
    /\ last = NoCall
    /\ net = NoNet
    /\ ghost = NoGhost
    /\ steps = 0
    /\ resps = <<>>

DoGetHeader == \E r \in ReqIds, n \in HeaderNames : GetHeader(r, n)

DoSetHeader == \E r \in ReqIds, n \in HeaderNames, v \in Values : SetHeader(r, n, v)

DoDelHeader == \E r \in ReqIds, n \in HeaderNames : DelHeader(r, n)

DoGetQuery == \E r \in ReqIds, n \in QueryNames : GetQuery(r, n)

DoSetQuery == \E r \in ReqIds, n \in QueryNames, v \in Values : SetQuery(r, n, v)

DoDelQuery == \E r \in ReqIds, n \in QueryNames : DelQuery(r, n)

DoWriteHeaders == \E r \in ReqIds, n \in HeaderNames, v \in Values : WriteHeaders(r, n, v)

Next ==
    \/ DoGetHeader /\ UNCHANGED <<steps, resps>>
    \/ DoSetHeader /\ UNCHANGED <<steps, resps>>
    \/ DoDelHeader /\ UNCHANGED <<steps, resps>>
    \/ DoGetQuery /\ UNCHANGED <<steps, resps>>
    \/ DoSetQuery /\ UNCHANGED <<steps, resps>>
    \/ DoDelQuery /\ UNCHANGED <<steps, resps>>
    \/ DoWriteHeaders /\ UNCHANGED <<steps, resps>>

\* One Request, built by a literal or a constructor, under any sequence of
\* header and query calls and direct writes of its Headers.
Spec == Init /\ [][Next]_vars

(***************************************************************************)
(* A Request, its copies, and calls and direct writes on each of them      *)
(***************************************************************************)

\* The Headers, Query and Body a first Request starts with (a set of at most
\* one element stands for a field that may be nil).
CopyHeaderStarts ==
    { {}, {EmptyMap}, {[k \in {MixedContentType} |-> <<"x">>]},
      {[k \in {MixedContentType, ContentTypeKey} |->
          IF k = ContentTypeKey THEN <<"x">> ELSE <<"y">>]} }

CopyQueryStarts == { {}, {EmptyMap}, {[k \in {<<"F","o","o">>} |-> <<"x">>]} }

CopyBodyStarts == { {}, {<<>>}, {<<"h","i">>} }

\* The sequence holding the element of a set of at most one element.
AsSeq(set) == IF set = {} THEN <<>> ELSE << CHOOSE x \in set : TRUE >>

InitCopy ==
    /\ \E h \in CopyHeaderStarts, q \in CopyQueryStarts, b \in CopyBodyStarts,
          post \in BOOLEAN :
          /\ mapHeap = AsSeq(h) \o AsSeq(q)
          /\ byteHeap = AsSeq(b)
          /\ reqs = << Request(<<"/","u">>,
                               IF post THEN POST ELSE GET,
                               IF h = {} THEN Nil ELSE 1,
                               IF q = {} THEN Nil ELSE Len(AsSeq(h)) + 1,
                               IF b = {} THEN Nil ELSE 1,
                               IF post THEN 5 ELSE 0) >>
    /\ last = NoCall
    /\ net = NoNet
    /\ ghost = NoGhost
    /\ steps = 0
    /\ resps = <<>>

\* One more call of a run that is cut to MaxOps calls.
Tick == steps < MaxOps /\ steps' = steps + 1 /\ UNCHANGED resps

NextCopy ==
    \/ Tick /\ Len(reqs) < MaxReqs /\ \E r \in ReqIds : Copy(r)
    \/ Tick /\ \E r \in ReqIds : GetHeader(r, ContentTypeKey)
    \/ Tick /\ \E r \in ReqIds : SetHeader(r, MixedContentType, <<"y">>)
    \/ Tick /\ \E r \in ReqIds : DelHeader(r, ContentTypeKey)
    \/ Tick /\ \E r \in ReqIds : WriteHeaders(r, MixedContentType, <<"z">>)
    \/ Tick /\ \E r \in ReqIds : GetQuery(r, <<"F","o","o">>)
    \/ Tick /\ \E r \in ReqIds : SetQuery(r, <<"F","o","o">>, <<"y">>)
    \/ Tick /\ \E r \in ReqIds : DelQuery(r, <<"F","o","o">>)
    \/ Tick /\ \E r \in ReqIds : WriteQuery(r, <<"f","o","o">>, <<"z">>)
    \/ Tick /\ \E r \in ReqIds, i \in 1..2 : WriteBody(r, i, "z")

\* A Request, the copies made of it and of them, and calls and direct writes
\* on each, in runs of at most MaxOps calls.
SpecCopy == InitCopy /\ [][NextCopy]_vars

(***************************************************************************)
(* Requests whose URL is a template, and ParsePathParams on them           *)
(***************************************************************************)

\* How a URL template is written: text, a field piped through functions
\* (with or without spaces inside the braces), and an action left open.
TextSeg(s) == [kind |-> "text", s |-> s]

FieldSeg(field, funcs, spaced) ==
    [kind |-> "field", field |-> field, funcs |-> funcs, spaced |-> spaced]

OpenSeg(field) == [kind |-> "open", field |-> field]

RenderSeg(seg) ==
    CASE seg.kind = "text" -> seg.s
      [] seg.kind = "open" -> <<"{","{"," ",".">> \o seg.field
      [] OTHER ->
           LET sp == IF seg.spaced THEN <<" ">> ELSE <<>>
           IN  <<"{","{">> \o sp \o <<".">> \o seg.field
               \o Concat([i \in 1..Len(seg.funcs) |-> sp \o <<"|">> \o sp \o seg.funcs[i]])
               \o sp \o <<"}","}">>

\* The URL string a sequence of segments spells.
Render(segs) == Concat([i \in 1..Len(segs) |-> RenderSeg(segs[i])])

UserID == <<"U","s","e","r","I","D">>

Text == <<"T","e","x","t">>

Message == <<"M","e","s","s","a","g","e">>

URLEscapeName == <<"U","R","L","E","s","c","a","p","e">>

HelloWorld == <<"H","e","l","l","o",","," ","W","o","r","l","d","!">>

Templates ==
    { <<>>,
      << TextSeg(<<"/","u">>) >>,
      \* http://x/{{.UserID}}/{{.Text|URLEncode}}
      << TextSeg(<<"h","t","t","p",":","/","/","x","/">>), FieldSeg(UserID, <<>>, FALSE), TextSeg(<<"/">>),
         FieldSeg(Text, <<URLEncodeName>>, FALSE) >>,
      \* /{{ .UserID }}/{{ .Text | URLEncode }}
      << TextSeg(<<"/">>), FieldSeg(UserID, <<>>, TRUE), TextSeg(<<"/">>),
         FieldSeg(Text, <<URLEncodeName>>, TRUE) >>,
      \* /api/{{ .Message }}
      << TextSeg(<<"/","a","p","i","/">>), FieldSeg(Message, <<>>, TRUE) >>,
      \* /api/{{ .Message | URLEscape }}
      << TextSeg(<<"/","a","p","i","/">>), FieldSeg(Message, <<URLEscapeName>>, TRUE) >>,
      \* /{{ .Text | print }}
      << TextSeg(<<"/">>), FieldSeg(Text, <<PrintName>>, TRUE) >>,
      \* /u/{{ .UserID
      << TextSeg(<<"/","u","/">>), OpenSeg(UserID) >>,
      \* /u/}}
      << TextSeg(<<"/","u","/","}","}">>) >> }

Datas ==
    { StructData([f \in {UserID, Text} |-> IF f = UserID THEN IntVal(123) ELSE StrVal(HelloWorld)]),
      StructData([f \in {Message} |-> StrVal(HelloWorld)]),
      StructData([f \in {UserID} |-> IntVal(123)]),
      MapData([f \in {UserID, Text} |-> IF f = UserID THEN IntVal(123) ELSE StrVal(<<"1","/","2">>)]),
      MapData([f \in {UserID} |-> IntVal(123)]),
      NilData }

\* A Request whose URL is one of the templates, its other fields zero or all set.
InitPath ==
    /\ \E t \in Templates, full \in BOOLEAN :
          /\ reqs = << IF full
                       THEN Request(Render(t), POST, 1, 2, 1, 5)
                       ELSE Request(Render(t), GET, Nil, Nil, Nil, 0) >>
          /\ mapHeap = IF full
                       THEN << [k \in {MixedContentType} |-> <<"x">>],
                               [k \in {<<"F","o","o">>} |-> <<"x">>] >>
                       ELSE <<>>
          /\ byteHeap = IF full THEN << <<"h","i">> >> ELSE <<>>
          /\ ghost = [how |-> "template", segs |-> << t >>]
    /\ last = NoCall
    /\ net = NoNet
    /\ steps = 0
    /\ resps = <<>>

\* ParsePathParams on any Request alive; the URL of the Request it returns
\* is text.
DoParsePathParams ==
    /\ Len(reqs) < MaxReqs
    /\ \E r \in ReqIds, d \in Datas : ParsePathParams(r, d)
    /\ ghost' = IF last'.err THEN ghost
                ELSE [ghost EXCEPT !.segs = Append(@, << TextSeg(reqs'[Len(reqs')].URL) >>)]
    /\ UNCHANGED <<steps, resps>>

NextPath == DoParsePathParams

SpecPath == InitPath /\ [][NextPath]_vars

(***************************************************************************)
(* URLEncode on its own                                                    *)
(***************************************************************************)

\* Characters of every class url.PathEscape tells apart: letters, digits,
\* the unreserved marks, the reserved characters, and others.
EncodeChars ==
    {"a", "Z", "0", "9", "-", ".", "_", "~", " ", "!", ",", "/", ":", ";", "?",
     "@", "&", "=", "+", "$", "%", "<"}

EncodeInputs ==
    {StrVal(s) : s \in UNION {[1..n -> EncodeChars] : n \in 0..MaxStrLen}}
    \cup {IntVal(n) : n \in {0, 7, 123, -45}}

\* A value is chosen.
InitEncode ==
    /\ \E v \in EncodeInputs : ghost = [how |-> "value", data |-> v]
    /\ reqs = <<>>
    /\ mapHeap = <<>>
    /\ byteHeap = <<>>
    /\ last = NoCall
    /\ net = NoNet
    /\ steps = 0
    /\ resps = <<>>

\* URLEncode is called on it.
DoURLEncode ==
    /\ last.op = "none"
    /\ last' = [op |-> "URLEncode", rcv |-> 0, name |-> <<>>, value |-> <<>>,
                data |-> ghost.data, res |-> URLEncode(ghost.data)]
    /\ UNCHANGED <<reqs, mapHeap, byteHeap, net, ghost, steps, resps>>

NextEncode == DoURLEncode

SpecEncode == InitEncode /\ [][NextEncode]_vars

(***************************************************************************)
(* Sending                                                                 *)
(***************************************************************************)

HostURL == HTTPPrefix \o <<"x">>

\* A URL that has a query of its own.
QueriedURL == HostURL \o <<"/","?","a","=","1">>

\* No URL, a URL that does not parse, a URL with no scheme, a URL with one,
\* a URL with a query.
SendURLs == {<<>>, <<":","x">>, <<"/","u">>, HostURL, QueriedURL}

\* A method outside the enumeration.
OtherMethod == 9

SendMethods == {GET, POST, OtherMethod}

\* Headers: nil, set by SetHeader, assigned directly in two cases.
SendHeaders ==
    << EmptyMap,
       [k \in {ContentTypeKey} |-> <<"x">>],
       [k \in {ContentTypeKey, MixedContentType} |->
          IF k = ContentTypeKey THEN <<"x">> ELSE <<"y">>] >>

\* Query: nil, one parameter, two whose order and characters matter.
SendQueries ==
    << EmptyMap,
       [k \in {<<"f","o","o">>} |-> <<"x">>],
       [k \in {<<"f","o","o">>, <<"b","a","z">>} |->
          IF k = <<"f","o","o">> THEN <<"b","a","r">> ELSE <<"q"," ","&">>] >>

\* One Request built by the caller, and a zero Request beside it.
InitSend ==
    /\ \E url \in SendURLs, m \in SendMethods, h \in 1..Len(SendHeaders),
           q \in 1..Len(SendQueries), b \in Bodies :
          /\ reqs = << Request(url, m, IF h = 1 THEN Nil ELSE 1,
                               IF q = 1 THEN Nil ELSE 2,
                               IF b = <<>> THEN Nil ELSE 1,
                               IF m = POST THEN 5 ELSE 0),
                       ZeroRequest >>
          /\ mapHeap = << SendHeaders[h], SendQueries[q] >>
          /\ byteHeap = << b >>
    /\ last = NoCall
    /\ net = NoNet
    /\ ghost = [how |-> "send"]
    /\ steps = 0
    /\ resps = <<>>

DoSend ==
    /\ steps < MaxSends
    /\ \E r \in ReqIds : Send(r)
    /\ steps' = steps + 1
    /\ UNCHANGED ghost

NextSend == DoSend

SpecSend == InitSend /\ [][NextSend]_vars

(***************************************************************************)
(* JSON bodies                                                             *)
(***************************************************************************)

\* The bodies a Response is built with: none, JSON objects, JSON values
\* that are no object, texts that are no JSON.
JSONBodies ==
    { <<>>,
      <<"{","}">>,
      <<" ","{"," ","}"," ">>,
      <<"{","dquote","m","e","s","s","a","g","e","dquote",":","dquote","p","o","n","g","dquote","}">>,
      <<"{","dquote","a","dquote",":","1",",","dquote","b","dquote",":","[","t","r","u","e","]","}">>,
      <<"[","1","]">>,
      <<"[","]">>,
      <<"dquote","s","dquote">>,
      <<"1">>,
      <<"t","r","u","e">>,
      <<"n","u","l","l">>,
      <<" ","n","u","l","l"," ">>,
      <<"{">>,
      <<"{","dquote","a","dquote",":","1","}"," ","x">>,
      <<"x">> }

MessageKey == <<"m","e","s","s","a","g","e">>

Pong == <<"p","o","n","g">>

\* The maps a caller marshals: nil, empty, flat with string values (one
\* with characters JSON escapes, one with a byte that is no UTF-8), and
\* with values that are no strings.
JSONMappings ==
    { NilMapping,
      Mapping(EmptyMap),
      Mapping([k \in {MessageKey} |-> StrVal(Pong)]),
      Mapping([k \in {<<"b">>, <<"a">>} |->
                 StrVal(IF k = <<"a">> THEN <<>> ELSE <<"q", Quote, Backslash, "<", "/", " ">>)]),
      Mapping([k \in {<<"k">>} |-> StrVal(<<"a", InvalidByte>>)]),
      Mapping([k \in {<<"m","s","g">>, <<"n","e","s","t","e","d">>} |->
                 IF k = <<"m","s","g">> THEN StrVal(<<"p","i","n","g">>)
                 ELSE ObjVal([j \in {<<"m","s","g">>} |-> StrVal(Pong)])]),
      Mapping([k \in {<<"m","s","g">>} |-> ChanVal]),
      Mapping([k \in {<<"n">>} |-> IntVal(7)]) }

\* A Response built with a body (or none), and a map held by the caller.
InitJSON ==
    /\ \E d \in JSONMappings : ghost = [how |-> "mapping", data |-> d]
    /\ \E b \in JSONBodies, nilBody \in BOOLEAN :
          /\ nilBody => b = <<>>
          /\ byteHeap = IF nilBody THEN <<>> ELSE << b >>
          /\ resps = << Response(TRUE, 200, Nil, IF nilBody THEN Nil ELSE 1) >>
    /\ reqs = <<>>
    /\ mapHeap = <<>>
    /\ last = NoCall
    /\ net = NoNet
    /\ steps = 0

\* JSONMust on the caller's map.
DoJSONMust ==
    /\ steps < MaxOps
    /\ LET j == JSONMust(ghost.data)
       IN  /\ last' = [op |-> "JSONMust", rcv |-> 0, name |-> <<>>, value |-> <<>>,
                       data |-> ghost.data, panic |-> j.panic, res |-> j.out,
                       new |-> IF j.panic THEN Nil ELSE Len(byteHeap) + 1]
           /\ byteHeap' = IF j.panic THEN byteHeap ELSE Append(byteHeap, j.out)
    /\ steps' = steps + 1
    /\ UNCHANGED <<reqs, mapHeap, net, ghost, resps>>

\* A Response literal whose Body is a byte slice the caller holds.
DoNewResponse ==
    /\ steps < MaxOps
    /\ \E b \in 1..Len(byteHeap) :
          /\ resps' = Append(resps, Response(TRUE, 200, Nil, b))
          /\ last' = [op |-> "Response", rcv |-> 0, name |-> <<>>, value |-> <<>>,
                      new |-> Len(resps) + 1]
    /\ steps' = steps + 1
    /\ UNCHANGED <<reqs, mapHeap, byteHeap, net, ghost>>

\* Response.JSON on a Response.
ResponseJSON(p) ==
    /\ p \in RespIds
    /\ last' = [op |-> "JSON", rcv |-> p, name |-> <<>>, value |-> <<>>,
                body |-> ResponseBodyOf(p),
                res |-> JSON(ResponseBodyOf(p)).data,
                err |-> JSON(ResponseBodyOf(p)).err]
    /\ UNCHANGED <<reqs, mapHeap, byteHeap, net, resps>>

DoJSON ==
    /\ steps < MaxOps
    /\ \E p \in RespIds : ResponseJSON(p)
    /\ steps' = steps + 1
    /\ UNCHANGED ghost

NextJSON ==
    \/ DoJSONMust
    \/ DoNewResponse
    \/ DoJSON

SpecJSON == InitJSON /\ [][NextJSON]_vars

(***************************************************************************)
(* The must-variants                                                       *)
(***************************************************************************)

\* No URL, a URL with a host, a template that fills, a template left open.
MustURLs ==
    { <<>>, HostURL,
      Render(<< TextSeg(<<"/","u","/">>), FieldSeg(UserID, <<>>, FALSE) >>),
      Render(<< TextSeg(<<"/","u","/">>), OpenSeg(UserID) >>) }

\* A map that marshals and one that does not.
MustMappings ==
    { Mapping([k \in {MessageKey} |-> StrVal(Pong)]),
      Mapping([k \in {<<"m","s","g">>} |-> ChanVal]) }

InitMust ==
    /\ \E url \in MustURLs : reqs = << NewGetRequest(url) >>
    /\ \E d \in MustMappings : ghost = [how |-> "mapping", data |-> d]
    /\ mapHeap = <<>>
    /\ byteHeap = <<>>
    /\ last = NoCall
    /\ net = NoNet
    /\ steps = 0
    /\ resps = <<>>

DoMustSend ==
    /\ steps < MaxOps
    /\ \E r \in ReqIds : MustSend(r)
    /\ steps' = steps + 1
    /\ UNCHANGED ghost

DoMustParsePathParams ==
    /\ steps < MaxOps
    /\ Len(reqs) < MaxReqs
    /\ \E r \in ReqIds, d \in Datas : MustParsePathParams(r, d)
    /\ steps' = steps + 1
    /\ UNCHANGED <<ghost, resps>>

NextMust ==
    \/ DoMustSend
    \/ DoMustParsePathParams
    \/ DoJSONMust

SpecMust == InitMust /\ [][NextMust]_vars

(***************************************************************************)
(* HTTPMethod.String                                                       *)
(***************************************************************************)

\* A Request whose Method is any HTTPMethod, one of the nine or not.
InitMethod ==
    /\ \E m \in (-MethodRange)..MethodRange, url \in {<<>>, HostURL} :
          reqs = << Request(url, m, Nil, Nil, Nil, 0) >>
    /\ mapHeap = <<>>
    /\ byteHeap = <<>>
    /\ last = NoCall
    /\ net = NoNet
    /\ ghost = [how |-> "method"]
    /\ steps = 0
    /\ resps = <<>>

\* req.Method.String()
DoString ==
    /\ last.op = "none"
    /\ \E r \in ReqIds :
          last' = [op |-> "String", rcv |-> r, name |-> <<>>, value |-> <<>>,
                   res |-> MethodString(reqs[r].Method)]
    /\ UNCHANGED <<reqs, mapHeap, byteHeap, net, ghost, steps, resps>>

NextMethod == DoString

SpecMethod == InitMethod /\ [][NextMethod]_vars

(***************************************************************************)
(* Zero values                                                             *)
(***************************************************************************)

\* Response{}: every field zero.
ZeroResponse == Response(FALSE, 0, Nil, Nil)

\* A zero Request and a zero Response.
InitZero ==
    /\ reqs = << ZeroRequest >>
    /\ resps = << ZeroResponse >>
    /\ mapHeap = <<>>
    /\ byteHeap = <<>>
    /\ last = NoCall
    /\ net = NoNet
    /\ ghost = [how |-> "zero"]
    /\ steps = 0

DoResponseGetHeader ==
    /\ steps < MaxOps
    /\ \E p \in RespIds, n \in HeaderNames : ResponseGetHeader(p, n)
    /\ steps' = steps + 1

NextZero ==
    \/ Tick /\ \E r \in ReqIds, n \in HeaderNames : GetHeader(r, n)
    \/ Tick /\ \E r \in ReqIds, n \in HeaderNames, v \in Values : SetHeader(r, n, v)
    \/ Tick /\ \E r \in ReqIds, n \in HeaderNames : DelHeader(r, n)
    \/ Tick /\ \E r \in ReqIds, n \in QueryNames : GetQuery(r, n)
    \/ Tick /\ \E r \in ReqIds, n \in QueryNames, v \in Values : SetQuery(r, n, v)
    \/ Tick /\ \E r \in ReqIds, n \in QueryNames : DelQuery(r, n)
    \/ DoResponseGetHeader

SpecZero == InitZero /\ [][NextZero]_vars

(***************************************************************************)
(* Two goroutines, one Request each                                        *)
(***************************************************************************)

Goroutines == {1, 2}

\* The calls the two goroutines make between them.
MaxParOps == 2

\* What a Request holds, read through its addresses.
Snapshot(r) ==
    [URL |-> reqs[r].URL, Method |-> reqs[r].Method, Headers |-> HeadersOf(r),
     Query |-> QueryOf(r), Body |-> BodyOf(r), Timeout |-> reqs[r].Timeout]

NoLocals == [u |-> <<>>, timeout |-> 0]

\* r1 as its caller built it; r2 := r1.Copy() is the first step, and the two
\* goroutines start after it, each at no call.
InitPar ==
    /\ \E url \in {<<>>, <<":","x">>, HostURL}, h \in 1..2, q \in 1..2,
          b \in Bodies :
          /\ reqs = << Request(url, IF b = <<>> THEN GET ELSE POST,
                               IF h = 1 THEN Nil ELSE 1,
                               IF q = 1 THEN Nil ELSE 2,
                               IF b = <<>> THEN Nil ELSE 1,
                               IF b = <<>> THEN 0 ELSE 5) >>
          /\ mapHeap = << SendHeaders[h], SendQueries[q] >>
          /\ byteHeap = << b >>
    /\ last = NoCall
    /\ net = NoNet
    /\ ghost = [how |-> "goroutines",
                pc |-> [i \in Goroutines |-> "idle"],
                loc |-> [i \in Goroutines |-> NoLocals],
                snap |-> [i \in Goroutines |-> NoLocals]]
    /\ steps = 0
    /\ resps = <<>>

\* r2 := r1.Copy(), before the goroutines start.
ParCopy ==
    /\ Len(reqs) = 1
    /\ Copy(1)
    /\ UNCHANGED <<steps, resps>>

\* Goroutine i is between two calls on its Request, and starts one more.
ParIdle(i) ==
    /\ Len(reqs) = 2
    /\ ghost.pc[i] = "idle"
    /\ steps < MaxParOps
    /\ steps' = steps + 1
    /\ UNCHANGED resps

\* Send, lines 328-336: the client with its Timeout, and getURL.
ParGetURL(i) ==
    /\ ParIdle(i)
    /\ LET g == GetURL(i)
       IN  IF g.err /= NoError
           THEN /\ last' = Returned(i, NilResponse, g.err)
                /\ UNCHANGED ghost
           ELSE /\ ghost' = [ghost EXCEPT
                               !.pc[i] = "NewRequest",
                               !.loc[i] = [u |-> g.u, timeout |-> reqs[i].Timeout],
                               !.snap[i] = Snapshot(i)]
                /\ UNCHANGED last
    /\ UNCHANGED <<reqs, mapHeap, byteHeap, net>>

\* Send, lines 338-342: http.NewRequest over a buffer that wraps req.Body,
\* whose bytes the transport reads when it writes the request.
ParNewRequest(i) ==
    /\ ghost.pc[i] = "NewRequest"
    /\ LET n == NewRequest(MethodString(reqs[i].Method), ghost.loc[i].u, reqs[i].Body)
       IN  IF n.err
           THEN /\ last' = Returned(i, NilResponse, "error creating request")
                /\ ghost' = [ghost EXCEPT !.pc[i] = "idle"]
           ELSE /\ ghost' = [ghost EXCEPT
                               !.pc[i] = "Header.Set",
                               !.loc[i] = [u |-> @.u, timeout |-> @.timeout,
                                           req |-> n.req]]
                /\ UNCHANGED last
    /\ UNCHANGED <<reqs, mapHeap, byteHeap, net, steps, resps>>

\* Send, lines 344-347: the loop over req.Headers.
ParSetHeaders(i) ==
    /\ ghost.pc[i] = "Header.Set"
    /\ \E h \in SentHeaders(HeadersOf(i)) :
          ghost' = [ghost EXCEPT !.pc[i] = "Do", !.loc[i].req.Header = h]
    /\ UNCHANGED <<reqs, mapHeap, byteHeap, net, last, steps, resps>>

\* Send, lines 349-379: client.Do, which reads the body's bytes, and the
\* Response made of the reply.
ParDo(i) ==
    /\ ghost.pc[i] = "Do"
    /\ LET l == ghost.loc[i]
           sent == [l.req EXCEPT !.Body = IF @ = Nil THEN <<>> ELSE byteHeap[@]]
       IN  \E o \in Outcomes(l.u) :
              /\ net' = net \o Exchanges(sent, l.timeout, o)
              /\ IF Failure(o) /= NoError
                 THEN /\ last' = Returned(i, NilResponse, Failure(o))
                      /\ UNCHANGED <<mapHeap, byteHeap, resps>>
                 ELSE \E rh \in ResponseHeaders(o.Header) :
                         /\ mapHeap' = Append(mapHeap, rh)
                         /\ byteHeap' = Append(byteHeap, o.Body)
                         /\ resps' = Append(resps,
                                            Response(o.StatusCode < 400, o.StatusCode,
                                                     Len(mapHeap) + 1, Len(byteHeap) + 1))
                         /\ last' = Returned(i, [ptr |-> Len(resps) + 1], NoError)
    /\ ghost' = [ghost EXCEPT !.pc[i] = "idle"]
    /\ UNCHANGED <<reqs, steps>>

NextPar ==
    \/ ParCopy
    \/ \E i \in Goroutines : ParGetURL(i)
    \/ \E i \in Goroutines : ParNewRequest(i)
    \/ \E i \in Goroutines : ParSetHeaders(i)
    \/ \E i \in Goroutines : ParDo(i)
    \/ \E i \in Goroutines : ParIdle(i) /\ SetHeader(i, MixedContentType, <<"y">>)
    \/ \E i \in Goroutines : ParIdle(i) /\ DelHeader(i, ContentTypeKey)
    \/ \E i \in Goroutines : ParIdle(i) /\ SetQuery(i, <<"f","o","o">>, <<"y">>)
    \/ \E i \in Goroutines : ParIdle(i) /\ DelQuery(i, <<"f","o","o">>)

\* r1 and r2 := r1.Copy() in two goroutines, each sending its Request and
\* changing its headers and query, in every interleaving of their steps.
SpecPar == InitPar /\ [][NextPar]_vars

(***************************************************************************)
(* What the caller keeps of what it passed in                              *)
(***************************************************************************)

\* The caller holds a body slice (nil, or the bytes at address 1) and has
\* built no Request yet.
InitOwn ==
    /\ reqs = <<>>
    /\ mapHeap = <<>>
    /\ byteHeap = << <<"h","i">> >>
    /\ \E body \in {Nil, 1} : ghost = [how |-> "caller", body |-> body]
    /\ last = NoCall
    /\ net = NoNet
    /\ steps = 0
    /\ resps = <<>>

DoNewGetRequest ==
    /\ Len(reqs) < MaxReqs
    /\ \E url \in {<<"/","u">>, HostURL} :
          /\ reqs' = Append(reqs, NewGetRequest(url))
          /\ last' = [op |-> "NewGetRequest", rcv |-> Len(reqs) + 1, name |-> <<>>,
                      value |-> <<>>]
    /\ UNCHANGED <<mapHeap, byteHeap, net, ghost>>

\* NewPostRequest(url, ct, body) with the slice the caller holds.
DoNewPostRequest ==
    /\ Len(reqs) < MaxReqs
    /\ \E url \in {<<"/","u">>, HostURL}, ct \in Values :
          /\ reqs' = Append(reqs, NewPostRequest(url, Len(mapHeap) + 1, ghost.body))
          /\ mapHeap' = Append(mapHeap, PostHeaders(ct))
          /\ last' = [op |-> "NewPostRequest", rcv |-> Len(reqs) + 1, name |-> <<>>,
                      value |-> ct]
    /\ UNCHANGED <<byteHeap, net, ghost>>

\* The caller's own write, body[i] = b, on the slice it holds.
CallerWrite(i, b) ==
    /\ ghost.body # Nil
    /\ i \in 1..Len(byteHeap[ghost.body])
    /\ byteHeap' = [byteHeap EXCEPT ![ghost.body][i] = b]
    /\ last' = [op |-> "CallerWrite", rcv |-> 0, name |-> <<>>, value |-> <<b>>]
    /\ UNCHANGED <<reqs, mapHeap, net, ghost>>

NextOwn ==
    \/ Tick /\ DoNewGetRequest
    \/ Tick /\ DoNewPostRequest
    \/ Tick /\ Len(reqs) < MaxReqs /\ (\E r \in ReqIds : Copy(r))
    \/ Tick /\ Len(reqs) < MaxReqs /\ (\E r \in ReqIds : ParsePathParams(r, NilData))
            /\ UNCHANGED ghost
    \/ steps < MaxOps /\ steps' = steps + 1 /\ (\E r \in ReqIds : Send(r))
            /\ UNCHANGED ghost
    \/ Tick /\ (\E i \in 1..2 : CallerWrite(i, "z"))

\* Requests built by the constructors, by Copy and by ParsePathParams, sent,
\* and the caller writing to the slice it passed in.
SpecOwn == InitOwn /\ [][NextOwn]_vars

(***************************************************************************)
(* A Response built by its holder                                          *)
(***************************************************************************)

\* A Response whose Headers is nil, or a map assigned directly, with keys
\* of any case and values that may be empty.
InitResp ==
    /\ reqs = <<>>
    /\ \E m \in DirectMaps \cup {[k \in {MixedContentType} |-> <<>>]}, withMap \in BOOLEAN :
          /\ withMap \/ m = EmptyMap
          /\ resps = << Response(TRUE, 200, IF withMap THEN 1 ELSE Nil, Nil) >>
          /\ mapHeap = IF withMap THEN <<m>> ELSE <<>>
    /\ byteHeap = <<>>
    /\ last = NoCall
    /\ net = NoNet
    /\ ghost = [how |-> "response"]
    /\ steps = 0

NextResp == DoResponseGetHeader

SpecResp == InitResp /\ [][NextResp]_vars

(***************************************************************************)
(* The header and query stores                                             *)
(***************************************************************************)

\* C1: for header names n1, n2 that differ only in case, and whatever way the
\* Headers map was filled, SetHeader(n1, v) immediately followed by
\* GetHeader(n2) returns (v, true).
C1_SetThenGetHeader ==
    [][(/\ last.op = "SetHeader"
        /\ last'.op = "GetHeader"
        /\ last'.rcv = last.rcv
        /\ ToLower(last'.name) = ToLower(last.name))
       => (last'.ok /\ last'.res = last.value)]_vars

\* Whether looking name up in map m gives (v, found).
Looks(m, name, v, found) ==
    /\ found = (name \in DOMAIN m)
    /\ v = IF name \in DOMAIN m THEN m[name] ELSE <<>>

\* C2: query parameters are matched by exact case.  SetQuery(a, v) makes the
\* lookup of a give (v, true) and changes the lookup of no other name b, one
\* differing from a only in case included; GetQuery(b) returns what is stored
\* under exactly b, and not-found when only another spelling is stored.
C2_QueryExactCase ==
    [][\A r \in 1..MaxReqs :
        /\ (last'.op = "SetQuery" /\ last'.rcv = r) =>
              \A b \in QueryNames :
                 IF b = last'.name
                 THEN Looks(QueryOf(r)', b, last'.value, TRUE)
                 ELSE \A v \in Values \cup {<<>>}, f \in BOOLEAN :
                        Looks(QueryOf(r)', b, v, f) = Looks(QueryOf(r), b, v, f)
        /\ (last'.op = "GetQuery" /\ last'.rcv = r) =>
              /\ Looks(QueryOf(r), last'.name, last'.res, last'.ok)
              /\ QueryOf(r)' = QueryOf(r)]_vars

\* SetQuery("Foo", v) was made and GetQuery("foo") has just returned not-found.
C2_Witness ==
    /\ last.op = "GetQuery"
    /\ ~last.ok
    /\ \E k \in DOMAIN QueryOf(last.rcv) : k # last.name /\ ToLower(k) = ToLower(last.name)

(***************************************************************************)
(* Copy                                                                    *)
(***************************************************************************)

\* Request r holds after the step what it held before it.
Untouched(r) ==
    /\ reqs'[r] = reqs[r]
    /\ HeadersOf(r)' = HeadersOf(r)
    /\ QueryOf(r)' = QueryOf(r)
    /\ BodyOf(r)' = BodyOf(r)

\* C3: a Request and its copy are independent: a call or a direct write of
\* the Headers, Query or Body bytes of one leaves the Headers, Query and
\* Body of every other Request as they were.
C3_CopyIndependent ==
    [][\A r \in 1..MaxReqs : (r \in ReqIds /\ last'.rcv # r) => Untouched(r)]_vars

\* A copy was made and then written to, and now differs from its original
\* in Headers, Query and Body.
C3_Witness ==
    /\ Len(reqs) >= 2
    /\ last.op \in {"WriteHeaders", "WriteQuery", "WriteBody", "SetHeader", "SetQuery"}
    /\ last.rcv = 2
    /\ \/ HeadersOf(1) # HeadersOf(2)
       \/ QueryOf(1) # QueryOf(2)
       \/ BodyOf(1) # BodyOf(2)
    /\ reqs[1].Headers # Nil /\ reqs[1].Query # Nil /\ reqs[1].Body # Nil

\* C4: Copy returns a Request with the receiver's URL, Method and Timeout and
\* with exactly the receiver's Headers entries, Query entries and Body bytes,
\* and leaves the receiver as it was.
C4_CopyEqual ==
    [][\A r \in 1..MaxReqs, n \in 1..(MaxReqs + 1) :
        (last'.op = "Copy" /\ last'.rcv = r /\ n = Len(reqs) + 1) =>
           /\ Len(reqs') = n
           /\ reqs'[n].URL = reqs[r].URL
           /\ reqs'[n].Method = reqs[r].Method
           /\ reqs'[n].Timeout = reqs[r].Timeout
           /\ HeadersOf(n)' = HeadersOf(r)
           /\ QueryOf(n)' = QueryOf(r)
           /\ BodyOf(n)' = BodyOf(r)
           /\ Untouched(r)]_vars

\* Copy has just returned, from a receiver with a mixed-case header key, a
\* query parameter, a body and a timeout.
C4_Witness ==
    /\ last.op = "Copy"
    /\ MixedContentType \in DOMAIN HeadersOf(last.rcv)
    /\ QueryOf(last.rcv) # EmptyMap
    /\ BodyOf(last.rcv) # <<>>
    /\ reqs[last.rcv].Timeout # 0
    /\ HeadersOf(last.new) = HeadersOf(last.rcv)

(***************************************************************************)
(* ParsePathParams                                                         *)
(***************************************************************************)

\* C5: ParsePathParams never mutates the receiver: whether it returns a
\* Request or an error, the receiver's URL, Method, Headers, Query, Body and
\* Timeout are what they were before the call.
C5_ParseKeepsReceiver ==
    [][\A r \in 1..MaxReqs :
        (last'.op = "ParsePathParams" /\ last'.rcv = r) => Untouched(r)]_vars

\* ParsePathParams has returned a Request with the template filled in, and
\* the receiver still holds the template.
C5_Witness ==
    /\ last.op = "ParsePathParams"
    /\ ~last.err
    /\ reqs[last.rcv].URL = Render(ghost.segs[last.rcv])
    /\ reqs[last.new].URL # reqs[last.rcv].URL

\* Whether every placeholder of the template is {{ .Field }} or
\* {{ .Field | URLEncode }} with a field the data has.
Fillable(segs, data) ==
    \A i \in 1..Len(segs) :
       \/ segs[i].kind = "text"
       \/ /\ segs[i].kind = "field"
          /\ segs[i].field \in DOMAIN data.fields
          /\ segs[i].funcs \in {<<>>, <<URLEncodeName>>}

\* The template with each placeholder replaced by the textual value of its
\* field, or by URLEncode of that value.
Filled(segs, data) ==
    Concat([i \in 1..Len(segs) |->
              IF segs[i].kind = "text" THEN segs[i].s
              ELSE IF segs[i].funcs = <<>> THEN Sprint(data.fields[segs[i].field])
              ELSE URLEncode(data.fields[segs[i].field])])

\* C6: on success ParsePathParams returns a new Request that is a copy of the
\* receiver with only URL replaced: URL is the template with each
\* {{ .Field }} replaced by the textual value of the field and each
\* {{ .Field | URLEncode }} by URLEncode of it; Method, Headers, Query, Body
\* and Timeout equal the receiver's.
C6_ParseReturnsFilledCopy ==
    [][\A r \in 1..MaxReqs, n \in 1..(MaxReqs + 1) :
        (/\ last'.op = "ParsePathParams"
         /\ ~last'.err
         /\ last'.rcv = r
         /\ n = Len(reqs) + 1) =>
           /\ Len(reqs') = n
           /\ Fillable(ghost.segs[r], last'.data) =>
                 reqs'[n].URL = Filled(ghost.segs[r], last'.data)
           /\ reqs'[n].Method = reqs[r].Method
           /\ reqs'[n].Timeout = reqs[r].Timeout
           /\ HeadersOf(n)' = HeadersOf(r)
           /\ QueryOf(n)' = QueryOf(r)
           /\ BodyOf(n)' = BodyOf(r)]_vars

\* http://x/{{.UserID}}/{{.Text|URLEncode}} with {UserID: 123, Text: "Hello,
\* World!"} has given http://x/123/Hello%2C%20World%21, on a Request with
\* headers, a query and a body.
C6_Witness ==
    /\ last.op = "ParsePathParams"
    /\ ~last.err
    /\ reqs[last.new].URL = <<"h","t","t","p",":","/","/","x","/","1","2","3","/","H","e","l","l","o","%","2","C","%","2","0","W","o","r","l","d","%","2","1">>
    /\ HeadersOf(last.new) # EmptyMap
    /\ BodyOf(last.new) # <<>>

\* Whether s occurs in t.
Occurs(s, t) == IndexFrom(t, s, 1) # 0

\* Whether the template's delimiters are unbalanced: an action is left open
\* (a "}}" outside an action is text in this template language).
Unbalanced(segs) == \E i \in 1..Len(segs) : segs[i].kind = "open"

OtherFunction(segs) ==
    \E i \in 1..Len(segs) :
       /\ segs[i].kind = "field"
       /\ \E j \in 1..Len(segs[i].funcs) : segs[i].funcs[j] # URLEncodeName

MissingField(segs, data) ==
    \E i \in 1..Len(segs) :
       segs[i].kind \in {"field", "open"} /\ segs[i].field \notin DOMAIN data.fields

\* C7: ParsePathParams returns an error (and no Request) whenever the template
\* is malformed (unbalanced delimiters), references a function other than
\* URLEncode, or references a field the data does not have; it never returns
\* a URL that still holds a placeholder or a stand-in for a missing value.
C7_ParseErrors ==
    last.op = "ParsePathParams" =>
       LET segs == ghost.segs[last.rcv]
       IN  /\ (Unbalanced(segs) \/ OtherFunction(segs) \/ MissingField(segs, last.data))
                 => (last.err /\ last.new = 0)
           /\ ~last.err =>
                 /\ ~Occurs(<<"{","{">>, reqs[last.new].URL)
                 /\ ~Occurs(<<"<","n","o"," ","v","a","l","u","e",">">>, reqs[last.new].URL)
                 /\ ~Occurs(PathEscape(<<"<","n","i","l",">">>), reqs[last.new].URL)

\* C8: inside the URL template the escaping helper goes by the name
\* URLEscape: /api/{{ .Message | URLEscape }} with Message = "Hello, World!"
\* succeeds and gives /api/Hello%2C%20World%21.
C8_URLEscapeInTemplate ==
    (/\ last.op = "ParsePathParams"
     /\ ghost.segs[last.rcv] = << TextSeg(<<"/","a","p","i","/">>), FieldSeg(Message, <<URLEscapeName>>, TRUE) >>
     /\ last.data = StructData([f \in {Message} |-> StrVal(HelloWorld)]))
    => (~last.err /\ reqs[last.new].URL = <<"/","a","p","i","/","H","e","l","l","o","%","2","C","%","2","0","W","o","r","l","d","%","2","1">>)

(***************************************************************************)
(* URLEncode                                                               *)
(***************************************************************************)

\* The safe set: letters, digits, '-', '.', '_', '~'.
Safe(c) == IsLower(c) \/ IsUpper(c) \/ IsDigit(c) \/ c \in {"-", ".", "_", "~"}

\* The text with every character outside the safe set percent-encoded.
AllUnsafeEncoded(text) ==
    Concat([i \in 1..Len(text) |->
              IF Safe(text[i]) THEN << text[i] >>
              ELSE << "%", UpperHex[(Ord(text[i]) \div 16) + 1],
                      UpperHex[(Ord(text[i]) % 16) + 1] >>])

\* C9: URLEncode(x) is the textual representation of x with every character
\* outside the safe set {letters, digits, '-', '.', '_', '~'} percent-encoded
\* and every character inside it unchanged, so ':', '@', '&', '=', '+', '$'
\* are encoded too.
C9_URLEncodeSafeSet ==
    last.op = "URLEncode" => last.res = AllUnsafeEncoded(Sprint(last.data))

(***************************************************************************)
(* Send on a Request with no URL                                           *)
(***************************************************************************)

\* C10: Send on a Request whose URL is empty returns a nil Response and the
\* error of the URL-building step, and the transport is not invoked in that
\* call: nothing is added to what the transport was asked to do.
C10_SendEmptyURLFailsFast ==
    [][(steps' = steps + 1 /\ last'.op = "Send" /\ reqs[last'.rcv].URL = <<>>)
         => /\ last'.res = NilResponse
            /\ last'.err = URLRequired
            /\ last'.err /= NoError
            /\ net' = net]_vars

\* A Send that reached the transport is followed by a Send on a Request with
\* no URL, which fails and leaves the transport's record as it was.
C10_Witness ==
    /\ steps = 2
    /\ Len(net) = 1
    /\ last.op = "Send"
    /\ reqs[last.rcv].URL = <<>>
    /\ last.res = NilResponse
    /\ last.err = URLRequired

(***************************************************************************)
(* The built URL                                                           *)
(***************************************************************************)

\* Whether the keys of the "name=value" parts come in sorted order.
KeysSorted(parts) ==
    \A i \in 1..(Len(parts) - 1) :
       StrLess(Cut(parts[i], "=").before, Cut(parts[i + 1], "=").before)

\* Whether q is an "&"-joined, key-sorted list of escaped pairs that holds
\* one name=value pair for every entry of m and nothing else.
EncodesExactly(q, m) ==
    LET parts == SplitOn(q, "&")
    IN  /\ Len(parts) = Cardinality(DOMAIN m)
        /\ KeysSorted(parts)
        /\ \A i \in 1..Len(parts) :
              /\ Cut(parts[i], "=").found
              /\ EscapesValid(parts[i])
              /\ \A j \in 1..Len(parts[i]) :
                    Safe(parts[i][j]) \/ parts[i][j] \in {"=", "%", "+"}
        /\ ParseQuery(q) = [k \in DOMAIN m |-> << m[k] >>]

\* C11: for a non-empty URL the built URL is the URL unchanged when Query is
\* nil or empty; otherwise it is URL + "?" + the "&"-joined, key-sorted,
\* escaped list with exactly one name=value pair for every entry of Query,
\* and the server observes every parameter with its exact value.
C11_BuiltURL ==
    (last.op = "Send" /\ reqs[last.rcv].URL # <<>>) =>
       LET r == last.rcv
           url == reqs[r].URL
           u == GetURL(r).u
       IN  /\ GetURL(r).err = NoError
           /\ last.err \notin {URLRequired, "error creating request"}
                 => net[Len(net)].req.URL = u
           /\ IF DOMAIN QueryOf(r) = {} THEN u = url
              ELSE /\ Len(u) > Len(url) + 1
                   /\ SubSeq(u, 1, Len(url) + 1) = url \o <<"?">>
                   /\ EncodesExactly(SubSeq(u, Len(url) + 2, Len(u)), QueryOf(r))
                   /\ net # <<>> /\ net[Len(net)].reply.kind = "reply" =>
                         \A k \in DOMAIN QueryOf(r) :
                            /\ k \in DOMAIN ServerQuery(net[Len(net)].req.URL)
                            /\ ServerQuery(net[Len(net)].req.URL)[k] = << QueryOf(r)[k] >>

(***************************************************************************)
(* The Response of Send                                                    *)
(***************************************************************************)

\* C12: for every Response returned by Send, Ok is true if and only if
\* StatusCode is in 100..399, and false for every StatusCode of 400 or more,
\* for every status code the transport can deliver.
C12_OkIffStatusInRange ==
    (last.op = "Send" /\ last.res # NilResponse) =>
       /\ resps[last.res.ptr].Ok <=> resps[last.res.ptr].StatusCode \in 100..399
       /\ resps[last.res.ptr].StatusCode >= 400 => ~resps[last.res.ptr].Ok

\* C13: Send returns exactly one of (Response, nil error) and (nil Response,
\* error); an exchange that completed, with any status code, 4xx and 5xx
\* included, gives a Response carrying that StatusCode and the full body; and
\* the error outcome comes only from a failure to build the URL, to create
\* the request, of the transport, or to read the body.
C13_SendOutcomes ==
    [][(steps' = steps + 1 /\ last'.op = "Send") =>
         LET r == last'.rcv
             res == last'.res
             err == last'.err
             reached == net' # net
             x == net'[Len(net')]
             completed == reached /\ x.reply.kind = "reply" /\ ~x.reply.readErr
         IN  /\ (res # NilResponse) <=> (err = NoError)
             /\ completed =>
                   /\ res # NilResponse
                   /\ res.ptr \in RespIds'
                   /\ resps'[res.ptr].StatusCode = x.reply.StatusCode
                   /\ resps'[res.ptr].Body # Nil
                   /\ byteHeap'[resps'[res.ptr].Body] = x.reply.Body
             /\ err # NoError =>
                   \/ reqs[r].URL = <<>>
                   \/ ~reached /\ ParseFails(GetURL(r).u)
                   \/ reached /\ x.reply.kind = "error"
                   \/ reached /\ x.reply.kind = "reply" /\ x.reply.readErr]_vars

\* A reply with status 500 and a body has come back as a Response with that
\* status and that body, and no error.
C13_Witness ==
    /\ last.op = "Send"
    /\ last.err = NoError
    /\ last.res # NilResponse
    /\ resps[last.res.ptr].StatusCode = 500
    /\ ~resps[last.res.ptr].Ok
    /\ ResponseBodyOf(last.res.ptr) = <<"h","i">>
    /\ net[Len(net)].reply.StatusCode = 500

(***************************************************************************)
(* Response.JSON                                                           *)
(***************************************************************************)

\* C14: Response.JSON on a Response whose Body is empty (zero bytes or nil)
\* returns an empty mapping and a nil error.
C14_EmptyBodyEmptyMapping ==
    (last.op = "JSON" /\ last.body = <<>>) =>
       /\ last.err = NoError
       /\ last.res = Mapping(EmptyMap)

\* C15: Response.JSON returns an error and a nil mapping whenever Body is
\* not valid JSON or its top-level value is not an object (an array, a
\* string, a number, a boolean or null); it returns a nil error only when the
\* top-level value is an object.
C15_ErrorUnlessObject ==
    last.op = "JSON" =>
       LET p == ParseValue(last.body, SkipWS(last.body, 1))
           isObject == /\ p.ok
                       /\ SkipWS(last.body, p.next) > Len(last.body)
                       /\ p.v.t = "object"
       IN  /\ ~isObject => (last.err # NoError /\ last.res = NilMapping)
           /\ last.err = NoError => isObject

\* Whether every value of the mapping is a string.
FlatStrings(d) == \A k \in DOMAIN d.m : d.m[k].t = "string"

\* C16: for every flat string-keyed mapping m with string values,
\* Response.JSON on a Response whose Body is the JSON encoding of m, as
\* JSONMust produces it, returns a mapping equal to m and a nil error.
C16_JSONRoundTrip ==
    (/\ last.op = "JSON"
     /\ FlatStrings(ghost.data)
     /\ ~JSONMust(ghost.data).panic
     /\ last.body = JSONMust(ghost.data).out) =>
       /\ last.err = NoError
       /\ last.res = ghost.data

(***************************************************************************)
(* The must-variants                                                       *)
(***************************************************************************)

\* C17: MustSend, MustParsePathParams and JSONMust panic if and only if the
\* operation under them (Send, ParsePathParams, json.Marshal) returns an
\* error, and otherwise return exactly the value that operation returned.
C17_MustUnwrapsOrPanics ==
    /\ last.op = "MustSend" =>
          /\ last.panic <=> last.call.err # NoError
          /\ ~last.panic => (last.res = last.call.res /\ last.res # NilResponse)
    /\ last.op = "MustParsePathParams" =>
          /\ last.panic <=> last.call.err
          /\ ~last.panic => (last.new = last.call.new /\ last.new \in ReqIds)
    /\ last.op = "JSONMust" =>
          /\ last.panic <=> Marshal(last.data).err
          /\ ~last.panic => last.res = Marshal(last.data).out

\* After MustParsePathParams returned a Request and JSONMust returned bytes,
\* MustSend has panicked on the error of the transport.
C17_Witness ==
    /\ last.op = "MustSend"
    /\ last.panic
    /\ last.call.op = "Send"
    /\ last.call.err = "transport"
    /\ Len(reqs) = 2
    /\ Len(byteHeap) = 1

(***************************************************************************)
(* HTTPMethod.String                                                       *)
(***************************************************************************)

\* The nine tokens, by method.
WireTokens ==
    [m \in {GET, POST, PUT, DELETE, OPTIONS, HEAD, CONNECT, TRACE, PATCH} |->
       CASE m = GET -> <<"G","E","T">>
         [] m = POST -> <<"P","O","S","T">>
         [] m = PUT -> <<"P","U","T">>
         [] m = DELETE -> <<"D","E","L","E","T","E">>
         [] m = OPTIONS -> <<"O","P","T","I","O","N","S">>
         [] m = HEAD -> <<"H","E","A","D">>
         [] m = CONNECT -> <<"C","O","N","N","E","C","T">>
         [] m = TRACE -> <<"T","R","A","C","E">>
         [] m = PATCH -> <<"P","A","T","C","H">>]

\* C18: HTTPMethod.String is total and has no side effect: each of GET, POST,
\* PUT, DELETE, OPTIONS, HEAD, CONNECT, TRACE, PATCH maps to its own
\* upper-case token, nine tokens distinct in pairs, and every other value
\* maps to the empty string.
C18_MethodString ==
    [][last'.op = "String" =>
         LET m == reqs[last'.rcv].Method
             res == last'.res
         IN  /\ m \in DOMAIN WireTokens =>
                   /\ res = WireTokens[m]
                   /\ res # <<>>
                   /\ \A i \in 1..Len(res) : IsUpper(res[i])
                   /\ \A o \in DOMAIN WireTokens \ {m} : MethodString(o) # res
             /\ m \notin DOMAIN WireTokens => res = <<>>
             /\ Cardinality(DOMAIN WireTokens) = 9
             /\ UNCHANGED <<reqs, mapHeap, byteHeap, net, resps>>]_vars

\* String has answered "" for a value outside the enumeration.
C18_Witness ==
    /\ last.op = "String"
    /\ reqs[last.rcv].Method = PATCH + 1
    /\ last.res = <<>>

(***************************************************************************)
(* Zero values                                                             *)
(***************************************************************************)

\* C19: GetHeader, SetHeader, DelHeader, GetQuery, SetQuery and DelQuery on a
\* Request, and GetHeader on a Response, called while the map is nil: get
\* returns ("", false), delete removes nothing, and after the call the map is
\* not nil and holds exactly the entries a set wrote.
C19_NilMapUsable ==
    [][/\ \A r \in ReqIds :
            (/\ last'.op \in {"GetHeader", "SetHeader", "DelHeader"}
             /\ steps' = steps + 1
             /\ last'.rcv = r
             /\ reqs[r].Headers = Nil) =>
               /\ reqs'[r].Headers # Nil
               /\ reqs'[r].Headers \in DOMAIN mapHeap'
               /\ last'.op = "GetHeader" => (last'.res = <<>> /\ ~last'.ok)
               /\ mapHeap'[reqs'[r].Headers] =
                     IF last'.op = "SetHeader"
                     THEN [k \in {ToLower(last'.name)} |-> last'.value]
                     ELSE EmptyMap
               /\ reqs'[r].Query = reqs[r].Query
               /\ \A a \in DOMAIN mapHeap : mapHeap'[a] = mapHeap[a]
       /\ \A r \in ReqIds :
            (/\ last'.op \in {"GetQuery", "SetQuery", "DelQuery"}
             /\ steps' = steps + 1
             /\ last'.rcv = r
             /\ reqs[r].Query = Nil) =>
               /\ reqs'[r].Query # Nil
               /\ reqs'[r].Query \in DOMAIN mapHeap'
               /\ last'.op = "GetQuery" => (last'.res = <<>> /\ ~last'.ok)
               /\ mapHeap'[reqs'[r].Query] =
                     IF last'.op = "SetQuery"
                     THEN [k \in {last'.name} |-> last'.value]
                     ELSE EmptyMap
               /\ reqs'[r].Headers = reqs[r].Headers
               /\ \A a \in DOMAIN mapHeap : mapHeap'[a] = mapHeap[a]
       /\ \A p \in RespIds :
            (/\ last'.op = "Response.GetHeader"
             /\ steps' = steps + 1
             /\ last'.rcv = p
             /\ resps[p].Headers = Nil) =>
               /\ resps'[p].Headers # Nil
               /\ resps'[p].Headers \in DOMAIN mapHeap'
               /\ mapHeap'[resps'[p].Headers] = EmptyMap
               /\ last'.res = <<>> /\ ~last'.ok
               /\ \A a \in DOMAIN mapHeap : mapHeap'[a] = mapHeap[a]]_vars

\* On a zero Request and a zero Response, DelQuery, then SetHeader, then
\* Response.GetHeader were called, each on a nil map: all three maps exist,
\* and only Headers holds an entry.
C19_Witness ==
    /\ steps = 3
    /\ last.op = "Response.GetHeader"
    /\ ~last.ok
    /\ Len(mapHeap) = 3
    /\ QueryOf(1) = EmptyMap
    /\ reqs[1].Query # Nil
    /\ DOMAIN HeadersOf(1) = {ContentTypeKey}
    /\ resps[1].Headers # Nil
    /\ ResponseHeadersOf(1) = EmptyMap

(***************************************************************************)
(* The keys of Headers and Query                                           *)
(***************************************************************************)

\* C20: in every state of a Request built by the constructors, the helper
\* methods and direct assignment of the Headers field, every key of Headers
\* is lower-case, so that no two keys are equal ignoring case; and Query
\* keys are stored exactly as supplied.
C20_HeaderKeysLowercase ==
    \A r \in ReqIds :
       /\ \A k \in DOMAIN HeadersOf(r) : k = ToLower(k)
       /\ \A k1, k2 \in DOMAIN HeadersOf(r) : ToLower(k1) = ToLower(k2) => k1 = k2
       /\ (last.op = "SetQuery" /\ last.rcv = r) =>
             /\ last.name \in DOMAIN QueryOf(r)
             /\ QueryOf(r)[last.name] = last.value

(***************************************************************************)
(* Sending from two goroutines                                             *)
(***************************************************************************)

\* The maps and the bytes a Request reaches.
MapsOf(r) == {reqs[r].Headers, reqs[r].Query} \ {Nil}

BytesOf(r) == {reqs[r].Body} \ {Nil}

\* The transport requests Send makes of a Request holding s, one for each
\* order the Headers map can be ranged over in.
SentAlone(s) ==
    LET q == Encode(s.Query)
        u == IF q /= <<>> THEN s.URL \o <<"?">> \o q ELSE s.URL
    IN  {[Method |-> IF MethodString(s.Method) = <<>> THEN MethodTokens[GET + 1]
                     ELSE MethodString(s.Method),
          URL |-> u, Header |-> h, Body |-> s.Body] : h \in SentHeaders(s.Headers)}

\* C21: with r2 = r1.Copy() and one goroutine on each, in every interleaving
\* of Send and of header and query helper calls, the two Requests reach no
\* common map or byte slice, a step changes what a Request holds only when
\* it is a call on that Request, and the transport request and the Response
\* of every Send are those of the same Send run alone on what its Request
\* held when it started.
C21_ParallelSendsIndependent ==
    [][Len(reqs) = 2 =>
         /\ MapsOf(1) \cap MapsOf(2) = {}
         /\ BytesOf(1) \cap BytesOf(2) = {}
         /\ \A p \in RespIds :
               /\ resps[p].Headers \notin MapsOf(1) \cup MapsOf(2)
               /\ resps[p].Body \notin BytesOf(1) \cup BytesOf(2)
         /\ \A i \in Goroutines :
               /\ Snapshot(i)' /= Snapshot(i) => (last'.rcv = i /\ ghost' = ghost)
               /\ ghost.pc[i] /= "idle" => Snapshot(i) = ghost.snap[i]
               /\ (ghost.pc[i] = "Do" /\ ghost'.pc[i] = "idle") =>
                     LET x == net'[Len(net')]
                     IN  /\ Len(net') = Len(net) + 1
                         /\ x.req \in SentAlone(ghost.snap[i])
                         /\ x.timeout = ghost.snap[i].Timeout
                         /\ last'.rcv = i
                         /\ last'.err = Failure(x.reply)
                         /\ (last'.err = NoError) =>
                               LET res == resps'[last'.res.ptr]
                               IN  /\ last'.res.ptr = Len(resps) + 1
                                   /\ res.Ok = (x.reply.StatusCode < 400)
                                   /\ res.StatusCode = x.reply.StatusCode
                                   /\ mapHeap'[res.Headers] \in ResponseHeaders(x.reply.Header)
                                   /\ byteHeap'[res.Body] = x.reply.Body
                                   /\ \A p \in RespIds : resps'[p] = resps[p]
                                   /\ \A a \in DOMAIN mapHeap : mapHeap'[a] = mapHeap[a]
                                   /\ \A a \in DOMAIN byteHeap : byteHeap'[a] = byteHeap[a]
    ]_vars

\* C21 witness: the second goroutine is inside Send, about to hand its
\* request to the transport, and the first has changed the headers of r1
\* since that Send started.
C21_Witness ==
    /\ Len(reqs) = 2
    /\ ghost.pc[2] = "Do"
    /\ last.op = "SetHeader" /\ last.rcv = 1
    /\ HeadersOf(1) /= HeadersOf(2)
    /\ HeadersOf(2) = ghost.snap[2].Headers
    /\ HeadersOf(2) /= EmptyMap

(***************************************************************************)
(* Composition by copy                                                     *)
(***************************************************************************)

\* C22: whatever Request or Response NewGetRequest, NewPostRequest, Copy,
\* ParsePathParams or Send produced, a write of the caller to the bytes it
\* passed in and still holds changes the Headers, Query and Body of no
\* Request and of no Response.
C22_NoSharedState ==
    [][last'.op = "CallerWrite" =>
         /\ \A r \in ReqIds : Snapshot(r)' = Snapshot(r)
         /\ \A p \in RespIds :
               /\ ResponseHeadersOf(p)' = ResponseHeadersOf(p)
               /\ ResponseBodyOf(p)' = ResponseBodyOf(p)
    ]_vars

(***************************************************************************)
(* The transport request                                                   *)
(***************************************************************************)

\* C23: the transport request of a Send carries, for every entry (k, v) of
\* the Request's Headers, a header whose name is k ignoring case and whose
\* only value is v; it carries no value that is not the value of an entry
\* of that name; and it is the same for every order the map is ranged in.
C23_SendCopiesEveryHeader ==
    [][Len(net') = Len(net) + 1 =>
         LET x == net'[Len(net')]
             m == HeadersOf(last'.rcv)
         IN  /\ \A k \in DOMAIN m :
                   \E c \in DOMAIN x.req.Header :
                      ToLower(c) = ToLower(k) /\ x.req.Header[c] = << m[k] >>
             /\ \A c \in DOMAIN x.req.Header :
                   \E k \in DOMAIN m :
                      ToLower(c) = ToLower(k) /\ x.req.Header[c] = << m[k] >>
             /\ Cardinality(SentHeaders(m)) = 1
    ]_vars

\* C24: the transport request of a Send has the method Method.String(), the
\* URL getURL built, the bytes of Body as its body, and Timeout as its
\* deadline (zero: none).
C24_TransportRequest ==
    [][Len(net') = Len(net) + 1 =>
         LET x == net'[Len(net')]
             r == last'.rcv
         IN  /\ x.req.Method = MethodString(reqs[r].Method)
             /\ GetURL(r).err = NoError
             /\ x.req.URL = GetURL(r).u
             /\ x.req.Body = BodyOf(r)
             /\ x.timeout = reqs[r].Timeout
    ]_vars

(***************************************************************************)
(* The Response of a Send                                                  *)
(***************************************************************************)

\* C25: whenever the transport replies and the body reads in full, Send
\* returns a Response and no error, whatever the reply's headers; every key
\* of the Response's Headers is lower-case; the keys are the lower-cased
\* names of the reply headers that have at least one value, one entry each;
\* and each value is the first value of its reply header.
C25_ResponseHeaders ==
    [][(/\ Len(net') = Len(net) + 1
        /\ net'[Len(net')].reply.kind = "reply"
        /\ ~net'[Len(net')].reply.readErr) =>
         LET h == net'[Len(net')].reply.Header
             named == {k \in DOMAIN h : Len(h[k]) > 0}
         IN  /\ last'.err = NoError
             /\ last'.res.ptr = Len(resps') /\ Len(resps') = Len(resps) + 1
             /\ resps'[last'.res.ptr].Headers # Nil
             /\ LET rh == mapHeap'[resps'[last'.res.ptr].Headers]
                IN  /\ \A k \in DOMAIN rh : k = ToLower(k)
                    /\ DOMAIN rh = {ToLower(k) : k \in named}
                    /\ \A k \in named : rh[ToLower(k)] = h[k][1]
    ]_vars

\* C25 witness: Send returned a Response for a reply with a header of two
\* values and a header of none.
C25_Witness ==
    /\ last.op = "Send" /\ last.err = NoError
    /\ Len(net) > 0
    /\ LET h == net[Len(net)].reply.Header
       IN  /\ \E k \in DOMAIN h : Len(h[k]) = 2
           /\ \E k \in DOMAIN h : Len(h[k]) = 0
    /\ DOMAIN ResponseHeadersOf(last.res.ptr) = {ContentTypeKey}
    /\ ResponseHeadersOf(last.res.ptr)[ContentTypeKey] = <<"x">>

\* C26: Response.GetHeader(name), on a Response whose Headers may have been
\* assigned directly with keys of any case: when exactly one stored key
\* equals name ignoring case, it returns that key's value and true; and it
\* returns ("", false) exactly when no stored key equals name ignoring
\* case.
C26_ResponseGetHeader ==
    [][steps' = steps + 1 =>
         LET m == ResponseHeadersOf(last'.rcv)
             same == {k \in DOMAIN m : ToLower(k) = ToLower(last'.name)}
         IN  /\ last'.op = "Response.GetHeader"
             /\ \A k \in same : same = {k} => (last'.ok /\ last'.res = m[k])
             /\ (last'.res = <<>> /\ ~last'.ok) <=> (same = {})
    ]_vars

\* C26 witness: the lower-case name found the value stored under its
\* mixed-case spelling, beside an unrelated key.
C26_Witness ==
    /\ last.op = "Response.GetHeader"
    /\ last.name = ContentTypeKey
    /\ last.ok /\ last.res = <<"y">>
    /\ DOMAIN ResponseHeadersOf(last.rcv) = {MixedContentType, <<"a","c","c","e","p","t">>}

(***************************************************************************)
(* DelHeader                                                               *)
(***************************************************************************)

\* C27: DelHeader(name) leaves no key equal to name ignoring case, however
\* many there were, so that GetHeader of any case variant of name, called
\* next, returns not-found; it leaves every other entry of Headers as it
\* was and adds none; when no key matched, the contents of Headers are
\* unchanged; and it changes nothing else of the Request or of any other.
C27_DelHeader ==
    [][/\ last'.op = "DelHeader" =>
            LET r == last'.rcv
                name == last'.name
                m == HeadersOf(r)
                after == mapHeap'[reqs'[r].Headers]
            IN  /\ reqs'[r].Headers # Nil
                /\ \A k \in DOMAIN after : ToLower(k) /= ToLower(name)
                /\ DOMAIN after \subseteq DOMAIN m
                /\ \A k \in DOMAIN m :
                      ToLower(k) /= ToLower(name) => (k \in DOMAIN after /\ after[k] = m[k])
                /\ (\A k \in DOMAIN m : ToLower(k) /= ToLower(name)) => after = m
                /\ reqs' = [reqs EXCEPT ![r].Headers = reqs'[r].Headers]
                /\ \A a \in DOMAIN mapHeap :
                      a /= reqs[r].Headers => mapHeap'[a] = mapHeap[a]
                /\ byteHeap' = byteHeap
       /\ (/\ last.op = "DelHeader"
           /\ last'.op = "GetHeader"
           /\ last'.rcv = last.rcv
           /\ ToLower(last'.name) = ToLower(last.name)) =>
             (~last'.ok /\ last'.res = <<>>)
    ]_vars

\* C27 witness: on a Request NewPostRequest built, whose Headers held
\* content-type, DelHeader of the mixed-case name has just run and left the
\* unrelated key, set meanwhile, alone.
C27_Witness ==
    /\ last.op = "DelHeader"
    /\ last.name = MixedContentType
    /\ reqs[last.rcv].Method = POST
    /\ DOMAIN HeadersOf(last.rcv) = {<<"a","c","c","e","p","t">>}

(***************************************************************************)
(* The exchange with the transport                                         *)
(***************************************************************************)

C29_NoRetry ==
    [][steps' = steps + 1 =>
         /\ last'.op = "Send"
         /\ Len(net') \in {Len(net), Len(net) + 1}
         /\ \A i \in 1..Len(net) : net'[i] = net[i]
         /\ (Len(net') > Len(net) /\ net'[Len(net')].reply.kind = "error") =>
               /\ last'.err = "transport"
               /\ last'.res = NilResponse
               /\ resps' = resps
    ]_vars

\* C29 witness: the transport failed and Send returned its error, the
\* transport having seen one request.
C29_Witness ==
    /\ Len(net) = 1
    /\ net[1].reply.kind = "error"
    /\ steps = 1
    /\ last.op = "Send" /\ last.err = "transport" /\ last.res = NilResponse

\* C30: Send leaves its Request as it was, whether it returns a Response
\* or an error: no field changes, a nil map stays nil, and no map or byte
\* slice that existed changes; and a Send of a Request that follows a Send
\* of the same Request hands the transport the same request.
C30_SendReadOnly ==
    [][steps' = steps + 1 =>
         /\ last'.op = "Send"
         /\ reqs' = reqs
         /\ \A a \in DOMAIN mapHeap : a \in DOMAIN mapHeap' /\ mapHeap'[a] = mapHeap[a]
         /\ \A a \in DOMAIN byteHeap : a \in DOMAIN byteHeap' /\ byteHeap'[a] = byteHeap[a]
         /\ (last.op = "Send" /\ last'.rcv = last.rcv /\ Len(net') = Len(net) + 1) =>
               /\ Len(net) >= 1
               /\ net'[Len(net')].req = net[Len(net)].req
               /\ net'[Len(net')].timeout = net[Len(net)].timeout
    ]_vars

====
